---------------------------- MODULE Spec2Model ----------------------------
(***************************************************************************)
(* A model of libdoxa's motion-control core.                               *)
(*                                                                         *)
(* Part 1: the drivetrain runner (subsystems/drivetrain/mod.rs): the       *)
(* action slot, the DoneFlag shared between the slot and the action        *)
(* future, the runner's tick, the caller operations and the RefCell        *)
(* borrows each of them takes.                                             *)
(*                                                                         *)
(* Part 2: the settling actions (subsystems/drivetrain/actions): the       *)
(* update of RotationAction, ForwardAction, SeekingAction and              *)
(* BoomerangAction up to the settling check, and Tolerances.               *)
(*                                                                         *)
(* Numbers.  The code computes in f64.  Voltages are modelled as exact     *)
(* rationals num/den (den > 0) over integer commands, so the scaling of    *)
(* DrivetrainPair::max is exact; f64 rounding is outside the model.  RPM   *)
(* values are fixed-point integers counting 1/RpmScale rpm, so that the    *)
(* `as i32` cast of the velocity setpoint truncates as the code does.      *)
(***************************************************************************)
EXTENDS Integers, Sequences, FiniteSets, TLC

\* ---------------------------------------------------------------- bounds
\* Number of actions (set_voltage / boxed_action calls) a behaviour installs.
MaxActions == 2
\* Largest magnitude of a command component an action returns.
MaxCmd == 3
\* Longest Tolerances timeout, in runner ticks.
MaxTicks == 4
\* Units of angle in a quarter turn (pi/2).
QuarterTurn == 1

\* ------------------------------------------------------ program constants
\* const LOOP_TIME: f64 = 10.0 (ms)
LOOP_TIME == 10
\* let last_max_voltage = 0.0; (never reassigned: the binding is not `mut`)
last_max_voltage == 0
\* fixed-point denominator of RPM values: 1 unit = 1/RpmScale rpm
RpmScale == 2
\* i32::MAX, the saturation bound of `as i32`
I32Max == 2147483647

VARIABLES
    action,          \* Rc<RefCell<Option<(Box<dyn Action>, Rc<AtomicBool>)>>>
    nextId,          \* identity of the next action object / flag allocated
    settled,         \* the set of DoneFlags (Rc<AtomicBool>) that are true
    futFlag,         \* futFlag[a]: the flag held by the future of action a (0: no future)
    futPoll,         \* futPoll[a]: result of the latest poll of that future
    max_voltage,     \* Rc<RefCell<f64>>, the voltage-limit cell
    reverse,         \* TrackingSubsystem.reverse
    snapshot,        \* TrackingSubsystem.current (abstract pose sample)
    motors,          \* what the motor groups were last told, per side
    limit,           \* the voltage limit last pushed to the motor groups
    last_left_rpm,   \* runner-local, fixed point
    last_right_rpm,  \* runner-local, fixed point
    max_acceleration,\* argument of Drivetrain::new (fixed point, per second)
    cmds,            \* which commands this behaviour's actions may return
    held,            \* RefCell borrows held by suspended tasks
    panicked,        \* a RefCell borrow conflicted (BorrowMutError / BorrowError)
    retired,         \* history: actions replaced or cancelled before finishing
    tick,            \* history: what the latest runner tick did
    lastOp,          \* history: the operation that produced this state
    act,             \* Part 2: the action object the runner updates
    upd,             \* Part 2, history: what the latest update of act did
    pid,             \* Part 2, history: the PID outputs of the latest update
    ctx,             \* Part 2, history: the ActionContext of the latest update
    trk,             \* Part 3: the TrackingSubsystem's cells (values)
    tog,             \* Part 3, history: the reads and toggles of reverse
    odo,             \* Part 3: the tracking task's locals, wheels and sensors
    anc,             \* Part 3, history: the latest set_current and what followed
    cor,             \* Part 3: a WrappingHeadingCorrector and its latest calls
    pth,             \* Part 4: a sampled path and the latest search on it
    cmp,             \* Part 4: a compound path and the latest query of it
    rpt              \* Part 5: DEVICE_DISCONNECTED_PORTS, the log, the latest report

driveVars == <<action, nextId, settled, futFlag, futPoll, max_voltage, reverse,
               snapshot, motors, limit, last_left_rpm, last_right_rpm,
               max_acceleration, cmds, held, panicked, retired, tick, lastOp>>
trackVars == <<trk, tog, odo, anc, cor, rpt>>
pathVars == <<pth, cmp>>
actVars == <<act, upd, pid, ctx, trackVars, pathVars>>
vars == <<driveVars, actVars>>

\* ------------------------------------------------------------ arithmetic
Abs(x) == IF x < 0 THEN -x ELSE x
Min(a, b) == IF a <= b THEN a ELSE b
Max(a, b) == IF a >= b THEN a ELSE b
Sign(x) == IF x < 0 THEN -1 ELSE IF x > 0 THEN 1 ELSE 0

\* f64 -> i32 `as` cast of a fixed-point value: truncation toward zero,
\* saturating at the i32 range.
AsI32(x) ==
    LET t == IF x >= 0 THEN x \div RpmScale ELSE -((-x) \div RpmScale)
    IN  IF t > I32Max THEN I32Max ELSE IF t < -I32Max - 1 THEN -I32Max - 1 ELSE t

\* ------------------------------------------------------- DrivetrainPair
Units == {"Voltage", "RPM"}
Pair(l, r, u) == [left |-> l, right |-> r, units |-> u]

\* DrivetrainPair::reverse: left becomes right and right becomes left.
DrivetrainPairReverse(p) == Pair(p.right, p.left, p.units)

DrivetrainPairMaxByLeft(p, max) ==
    IF Abs(p.left) <= max /\ Abs(p.right) <= max
    THEN [left |-> p.left, right |-> p.right, den |-> 1, units |-> p.units]
    ELSE [left |-> p.left * max, right |-> p.right * max,
          den |-> Abs(p.left), units |-> p.units]

\* DrivetrainPair::max: the pair scaled by ratio = max / (larger magnitude)
\* when either side exceeds max.  The result is the exact rational pair
\* (left/den, right/den).
DrivetrainPairMax(p, max) ==
    IF Abs(p.left) <= max /\ Abs(p.right) <= max
    THEN [left |-> p.left, right |-> p.right, den |-> 1, units |-> p.units]
    ELSE IF Abs(p.left) >= Abs(p.right)
         THEN [left |-> p.left * max, right |-> p.right * max,
               den |-> Abs(p.left), units |-> p.units]
         ELSE [left |-> p.left * max, right |-> p.right * max,
               den |-> Abs(p.right), units |-> p.units]

AccelLimitUpOnly(cmd, last, step) ==
    IF cmd > last THEN Min(cmd, last + step) ELSE cmd

\* The per-side acceleration limit of the RPM branch.
AccelLimit(cmd, last, step) ==
    IF cmd > last THEN Min(cmd, last + step)
    ELSE IF cmd < last THEN Max(cmd, last - step)
    ELSE cmd

\* let max_acceleration_loop = max_acceleration * LOOP_TIME / 1000.0;
max_acceleration_loop == (max_acceleration * LOOP_TIME) \div 1000

\* ----------------------------------------------------- RefCell borrows
Cells == {"action", "max_voltage", "tracking", "current", "reverse",
          "heading_offset", "left", "right", "callback"}
NoBorrows == [c \in Cells |-> 0]
B(c) == [op |-> "borrow", cell |-> c]
BM(c) == [op |-> "borrow_mut", cell |-> c]
D(c) == [op |-> "drop", cell |-> c]

\* RefCell's dynamic check: a shared borrow fails while the cell is mutably
\* borrowed, a mutable one fails while it is borrowed at all.  A cell's
\* state is the number of shared borrows, or -1 when mutably borrowed.
BorrowStep(st, e) ==
    LET n == st.cells[e.cell] IN
    IF st.panic THEN st
    ELSE IF e.op = "borrow"
         THEN IF n < 0 THEN [st EXCEPT !.panic = TRUE]
              ELSE [st EXCEPT !.cells[e.cell] = n + 1]
    ELSE IF e.op = "borrow_mut"
         THEN IF n # 0 THEN [st EXCEPT !.panic = TRUE]
              ELSE [st EXCEPT !.cells[e.cell] = -1]
    ELSE [st EXCEPT !.cells[e.cell] = IF n < 0 THEN 0 ELSE Max(n - 1, 0)]

\* The events evs[i..] applied in order.  Each intermediate state is bound
\* by a quantifier, so that it is computed once.
RECURSIVE RunBorrows(_, _, _)
RunBorrows(st, evs, i) ==
    IF i > Len(evs) THEN st
    ELSE CHOOSE out \in {RunBorrows(nx, evs, i + 1) :
                            nx \in {BorrowStep(st, evs[i])}} : TRUE

\* The borrows a piece of code takes, run on top of those held by the
\* suspended tasks.
AfterBorrows(evs) ==
    CHOOSE out \in {RunBorrows([cells |-> held, panic |-> FALSE], e, 1) :
                      e \in {evs}} : TRUE

\* ------------------------------------------------------------- inputs
\* Values of a command component (volts, or fixed-point rpm).
CmdVals == {-MaxCmd, 0, 1, MaxCmd}
\* The voltages given to set_voltage.
Voltages == {Pair(MaxCmd, 1, "Voltage")}
\* The commands an action's update may return: a range of them ("all")
\* where the arithmetic of a command is checked, two ("few") where the
\* life of an action is, one ("one") where its future is awaited.
Cmds == {Pair(l, r, u) : l \in CmdVals, r \in CmdVals \ {0}, u \in Units}
FewCmds == {Pair(MaxCmd, 1, "Voltage"), Pair(MaxCmd, -1, "RPM")}
ActionCmds ==
    IF cmds = "all" THEN Cmds
    ELSE IF cmds = "few" THEN FewCmds ELSE Voltages
\* Voltage limits given to Drivetrain::new and set_max_voltage.
Limits == {0, 2}
\* max_acceleration arguments: multiples of 100, so that
\* max_acceleration * LOOP_TIME / 1000 is exact in fixed point.
MaxAccelerations == {100, 300}
\* Abstract pose samples of the tracking snapshot.
Poses == {0, 1}

Ids == 1 .. MaxActions

\* ---------------------------------------------------------- the slot
\* Option<(Box<dyn Action>, Rc<AtomicBool>)>: None, or an action object
\* (its identity, kind and, for a VoltageAction, its voltage) and the flag.
Empty == [id |-> 0, kind |-> "None", voltage |-> Pair(0, 0, "Voltage"), flag |-> 0]
Slot(a, k, v, f) == [id |-> a, kind |-> k, voltage |-> v, flag |-> f]

\* Option<DrivetrainPair> returned by Action::update; called = FALSE when
\* the runner did not call update on this tick.
NoCall == [called |-> FALSE, some |-> FALSE, pair |-> Pair(0, 0, "Voltage")]
RetNone == [called |-> TRUE, some |-> FALSE, pair |-> Pair(0, 0, "Voltage")]
RetSome(p) == [called |-> TRUE, some |-> TRUE, pair |-> p]

\* VoltageAction::update returns Some(self.voltage) on every tick; any
\* other action returns None or some command.
ActionUpdate(a) ==
    IF a.kind = "Voltage" THEN {RetSome(a.voltage)}
    ELSE {RetNone} \cup {RetSome(c) : c \in ActionCmds}

\* What a motor group was last told.
Volts(num, den) == [mode |-> "Voltage", num |-> num, den |-> den]
Rpm(n) == [mode |-> "Velocity", num |-> n, den |-> 1]
Idle == [mode |-> "Idle", num |-> 0, den |-> 1]

NoTick == [updated |-> 0, ret |-> NoCall, slot |-> Empty, rev |-> FALSE,
           pushed |-> FALSE, maxv |-> last_max_voltage,
           prevMaxv |-> last_max_voltage, prevLeft |-> 0, prevRight |-> 0,
           setLeft |-> 0, setRight |-> 0, prevSetLeft |-> 0,
           prevSetRight |-> 0, step |-> 0, wrote |-> FALSE]
Op(o, a) == [op |-> o, a |-> a]

\* The state after Drivetrain::new and TrackingSubsystem::new.  cs: the
\* commands of the behaviour's actions; accs: the max_acceleration
\* arguments; first: the identity of the first action installed.
DriveInit(cs, accs, first) ==
    /\ action = Empty
    /\ nextId = first
    /\ cmds = cs
    /\ settled = {}
    /\ futFlag = [a \in Ids |-> 0]
    /\ futPoll = [a \in Ids |-> "NotPolled"]
    /\ max_voltage \in Limits
    /\ reverse = FALSE
    /\ snapshot = 0
    /\ motors = [left |-> Idle, right |-> Idle]
    /\ limit = -1
    /\ last_left_rpm = 0
    /\ last_right_rpm = 0
    /\ max_acceleration \in accs
    /\ held = NoBorrows
    /\ panicked = FALSE
    /\ retired = [a \in Ids |-> "no"]
    /\ tick = NoTick
    /\ lastOp = Op("new", 0)

\* No action object of Part 2.
NoTolerances == [error_tolerance |-> 0, velocity_tolerance |-> 0,
                 tolerance_duration |-> 0, timeout |-> 0,
                 elapsed |-> 0, since |-> -1]
None == [some |-> FALSE, value |-> 0]
Some(v) == [some |-> TRUE, value |-> v]
\* Point2<f64> / Vector2<f64>
Point(x, y) == [x |-> x, y |-> y]
Origin == Point(0, 0)
NoAction == [kind |-> "None", setpoint |-> 0, initialized |-> FALSE,
             initial_left_offset |-> None, initial_right_offset |-> None,
             target_point |-> Origin, close |-> 0, reverse |-> FALSE,
             settling_distance |-> 0, linear_setpoint |-> 0,
             rotational_setpoint_initialized |-> FALSE, tolerances |-> NoTolerances]
\* ActionContext: the pose (heading, offset), the wheel offsets and
\* velocities, and the linear velocity of the tracking data.
Context(h, lo, ro, lv, rv, x, v) ==
    [heading |-> h, left_offset |-> lo, right_offset |-> ro,
     left_velocity |-> lv, right_velocity |-> rv,
     offset |-> x, linear_velocity |-> v]
\* An f64 vector of the tracking loop; nan: its components are NaN (x
\* and y then carry no meaning).
Vec(x, y, nan) == [x |-> x, y |-> y, nan |-> nan]
IsNaN(p) == "nan" \in DOMAIN p /\ p.nan
\* TrackingData: the pose, its derivative, whether a timestamp is there,
\* and the raw heading it was computed from.  nan: the offset is NaN.
TrackingData(offset, heading, velocity, angular_velocity, timestamp, raw_heading) ==
    [offset |-> Point(offset.x, offset.y), heading |-> heading,
     velocity |-> Point(velocity.x, velocity.y),
     angular_velocity |-> angular_velocity, timestamp |-> timestamp,
     raw_heading |-> raw_heading, nan |-> IsNaN(offset)]
\* TrackingSubsystem::new: TrackingData::default(), Angle::default(), false
TrackingNew ==
    [current |-> TrackingData(Origin, 0, Origin, 0, FALSE, None),
     heading_offset |-> 0, reverse |-> FALSE]
\* What the sensors read: the heading sensor and the encoders of the
\* parallel and the perpendicular wheel, and which reads fail.
Readings(heading, heading_failed, par, par_failed, perp) ==
    [heading |-> heading, heading_failed |-> heading_failed, par |-> par,
     par_failed |-> par_failed, perp |-> perp]
\* No tick of the tracking loop yet.
NoSeen ==
    [ran |-> FALSE, heading |-> 0, average_heading |-> 0,
     displacement |-> Vec(0, 0, FALSE), before |-> TrackingNew.current,
     still |-> TRUE, failed |-> FALSE, rest_still |-> TRUE]
\* No expect_report call yet.
NoReport ==
    [called |-> FALSE, kind |-> "Ok", port |-> 0, value |-> 0, ret |-> None,
     logged |-> FALSE, before |-> {}]
\* DEVICE_DISCONNECTED_PORTS at program start, Mutex::new(None), nothing
\* logged and no panic.  log, panicked, calls and seen are what the calls
\* did.
NoReports == [ports |-> None, log |-> <<>>, panicked |-> FALSE, calls |-> 0, seen |-> NoReport]
\* No call of local_delta on the wheel yet.
NoLocalDelta ==
    [called |-> FALSE, heading_delta |-> 0, delta |-> 0, divided |-> FALSE,
     exact |-> TRUE, vec |-> Vec(0, 0, FALSE), reads |-> 0,
     before |-> 0, position |-> 0]
\* TrackingWheel::new: last_position is what the sensor reads then.
\* constructed, sum, calls and seen are history: the position at
\* construction, the sum of the raw deltas, the number of local_delta
\* calls and what the latest did.
TrackingWheelNew(circumference, mounting_offset, mounting_direction, sensor_position) ==
    [circumference |-> circumference, mounting_offset |-> mounting_offset,
     mounting_direction |-> mounting_direction,
     last_position |-> sensor_position,
     constructed |-> sensor_position, sum |-> 0, calls |-> 0,
     seen |-> NoLocalDelta]
\* The tracking task at its start, with the numbers of parallel and of
\* perpendicular wheels given to TrackingSubsystem::new; every sensor
\* reads zero then.  ticks and seen are history.
OdometryNew(parallel, perpendicular) ==
    [parallel |-> parallel, perpendicular |-> perpendicular,
     par_last_position |-> 0, perp_last_position |-> 0,
     last_raw_heading |-> 0,
     sensors |-> Readings(0, FALSE, 0, FALSE, 0),
     wheel |-> TrackingWheelNew(1, 0, "Parallel", 0),
     ticks |-> 0, seen |-> NoSeen]
\* A WrappingHeadingCorrector whose source last read last_heading and
\* which has accumulated nothing.  calls, reading, prev_reading, out and
\* prev_out are history: the number of heading() calls, the source's
\* readings at the latest two and what they returned.
CorrectorNew(last_heading) ==
    [last_heading |-> last_heading, heading_offset |-> 0, calls |-> 0,
     reading |-> 0, prev_reading |-> 0, out |-> 0, prev_out |-> 0]
\* The path of the pursuit: a straight line along the x axis.
PathPoints == <<Point(0, 0), Point(5, 0), Point(10, 0)>>
\* No search on the path yet.
NoSearch ==
    [kind |-> "none", point |-> Origin, radius |-> 0, initial_t |-> 1,
     overshoot |-> 0, result |-> None]
\* Cubic::new
Cubic(a, b, c, d) == [a |-> a, b |-> b, c |-> c, d |-> d]
\* No CubicParametricPath built yet, and none evaluated.
NoCubicEvaluated ==
    [called |-> FALSE, t |-> 0, point |-> Origin, derivative |-> Origin,
     angle |-> 0, default_angle |-> None]
NoCubic ==
    [made |-> FALSE, start_point |-> Origin, start_angle |-> 0,
     start_easing |-> 0, end_point |-> Origin, end_angle |-> 0,
     end_easing |-> 0, x |-> Cubic(0, 0, 0, 0), y |-> Cubic(0, 0, 0, 0),
     evaluated |-> NoCubicEvaluated]
\* A path sampled at points, not searched yet.
SampledPath(points) == [points |-> points, search |-> NoSearch, cubic |-> NoCubic]
\* No call of CompoundPath::evaluate and none of length_until.
NoEvaluated ==
    [called |-> FALSE, t |-> 0, panicked |-> FALSE, path |-> 0,
     local_t |-> 0, point |-> Origin]
NoMeasured ==
    [called |-> FALSE, t |-> 0, panicked |-> FALSE, length |-> 0,
     prev_called |-> FALSE, prev_t |-> 0, prev_length |-> 0]
\* A CompoundPath of n children with the cumulative lengths given, not
\* queried yet; n = 0 stands for no compound path.
Compound(n, lengths, total_length) ==
    [n |-> n, lengths |-> lengths, total_length |-> total_length,
     evaluated |-> NoEvaluated, measured |-> NoMeasured]
NoCompound == Compound(0, <<>>, 0)
\* No set_current yet.
NoAnchor ==
    [valid |-> FALSE, offset |-> Origin, heading |-> 0, ticks |-> 0,
     still |-> TRUE, touched |-> FALSE]
\* No read of current() and no set_reverse yet.
NoToggle ==
    [stage |-> "none", base |-> TrackingNew.current, read |-> TrackingNew.current,
     stored |-> TrackingNew, flag |-> FALSE]
NoUpdate == [kind |-> "None", ret |-> NoCall, error |-> 0, velocity |-> 0,
             den |-> 1, before |-> NoTolerances]
\* The outputs of the PID controllers stepped by an update.
PidOutputs(l, o) == [linear |-> l, angular |-> o]

InitWith(cs, accs, first) ==
    /\ DriveInit(cs, accs, first)
    /\ act = NoAction
    /\ upd = NoUpdate
    /\ pid = PidOutputs(0, 0)
    /\ ctx = Context(0, 0, 0, 0, 0, Origin, 0)
    /\ trk = TrackingNew /\ tog = NoToggle
    /\ odo = OdometryNew(1, 1) /\ anc = NoAnchor
    /\ cor = CorrectorNew(0) /\ rpt = NoReports
    /\ pth = SampledPath(PathPoints) /\ cmp = NoCompound

Init == InitWith("few", {300}, 1)

\* ------------------------------------------------- the runner's tick
\* As RunnerBorrows, with action_owned kept until after the sleep when
\* the action is done.
RunnerBorrowsHeld(changed, r) ==
    <<B("max_voltage")>>
    \o (IF changed THEN <<BM("left"), D("left"), BM("right"), D("right")>>
        ELSE <<>>)
    \o <<D("max_voltage"), BM("action")>>
    \o (IF action = Empty THEN <<D("action")>>
        ELSE <<B("tracking"), B("current"), D("current"),
               BM("left"), BM("right")>>
             \o (IF r.called /\ r.some
                 THEN <<B("reverse"), D("reverse")>>
                      \o (IF r.pair.units = "Voltage"
                          THEN <<B("max_voltage"), D("max_voltage")>>
                          ELSE <<>>)
                      \o <<D("action"), D("right"), D("left"), D("tracking")>>
                 ELSE <<D("right"), D("left"), D("tracking")>>))

\* Borrows of one pass of the runner loop (mod.rs 80-174), in order.  The
\* guards of the first block are dropped at its closing brace; in the
\* second, action_owned is dropped by drop() in the Some branch and at the
\* closing brace otherwise, after right, left and tracking.
RunnerBorrows(changed, r) ==
    <<B("max_voltage")>>
    \o (IF changed THEN <<BM("left"), D("left"), BM("right"), D("right")>>
        ELSE <<>>)
    \o <<D("max_voltage"), BM("action")>>
    \o (IF action = Empty THEN <<D("action")>>
        ELSE <<B("tracking"), B("current"), D("current"),
               BM("left"), BM("right")>>
             \o (IF r.called /\ r.some
                 THEN <<B("reverse"), D("reverse")>>
                      \o (IF r.pair.units = "Voltage"
                          THEN <<B("max_voltage"), D("max_voltage")>>
                          ELSE <<>>)
                      \o <<D("action"), D("right"), D("left"), D("tracking")>>
                 ELSE <<D("right"), D("left"), D("tracking"), D("action")>>))

TickCommandUnswapped(p) == p

\* if tracking.reverse() { voltage = voltage.reverse(); }
TickCommand(p) == IF reverse THEN DrivetrainPairReverse(p) ELSE p

\* The Voltage branch: voltage.max(*max_voltage.borrow()), then
\* left.set_voltage(voltage.left), right.set_voltage(voltage.right).
VoltageBranch(v) ==
    LET m == DrivetrainPairMax(v, max_voltage)
    IN  [left |-> Volts(m.left, m.den), right |-> Volts(m.right, m.den)]

RpmBranchFromZero(v) ==
    [left |-> AccelLimit(v.left, 0, max_acceleration_loop),
     right |-> AccelLimit(v.right, 0, max_acceleration_loop)]

\* The RPM branch: the limited per-side values, stored in last_*_rpm.
RpmBranch(v) ==
    [left |-> AccelLimit(v.left, last_left_rpm, max_acceleration_loop),
     right |-> AccelLimit(v.right, last_right_rpm, max_acceleration_loop)]

\* left.set_velocity(voltage.left as i32), right likewise.
RpmWrite(l) == [left |-> Rpm(AsI32(l.left)), right |-> Rpm(AsI32(l.right))]

EmptyWriteZeroed == [left |-> Volts(0, 1), right |-> Volts(0, 1)]

\* `if let Some(..) = *action_owned` has no else: with the slot empty
\* nothing is written to the motors.
EmptyWrite == motors

CallsUpdateSettled == action # Empty

DoneWriteSkipped == motors

\* The else branch: left.set_voltage(0.0), right.set_voltage(0.0) ...
DoneWrite == [left |-> Volts(0, 1), right |-> Volts(0, 1)]

\* ... and action_ref.1.store(true).
DoneStore == settled \cup {action.flag}

\* if *max_voltage != last_max_voltage { push the limit to both groups }
LimitChanged == max_voltage # last_max_voltage

\* Whether the runner calls update: the slot is populated and its flag
\* is not yet set (`!flag.load() && let Some(..) = update(..)`).
CallsUpdate == action # Empty /\ action.flag \notin settled

RunnerTick ==
    /\ ~panicked
    /\ \E r \in (IF CallsUpdate THEN ActionUpdate(action) ELSE {NoCall}) :
         LET st == AfterBorrows(RunnerBorrows(LimitChanged, r))
             v == TickCommand(r.pair)
             lim == RpmBranch(v)
             rpm == r.called /\ r.some /\ v.units = "RPM"
         IN
         /\ limit' = IF LimitChanged THEN max_voltage ELSE limit
         /\ IF action = Empty
            THEN /\ motors' = EmptyWrite
                 /\ UNCHANGED <<settled, last_left_rpm, last_right_rpm>>
            ELSE IF r.called /\ r.some
            THEN /\ settled' = settled
                 /\ IF v.units = "Voltage"
                    THEN /\ motors' = VoltageBranch(v)
                         /\ UNCHANGED <<last_left_rpm, last_right_rpm>>
                    ELSE /\ last_left_rpm' = lim.left
                         /\ last_right_rpm' = lim.right
                         /\ motors' = RpmWrite(lim)
            ELSE /\ motors' = DoneWrite
                 /\ settled' = DoneStore
                 /\ UNCHANGED <<last_left_rpm, last_right_rpm>>
         /\ held' = st.cells
         /\ panicked' = st.panic
         /\ tick' = [updated |-> IF r.called THEN action.id ELSE 0,
                     ret |-> r, slot |-> action, rev |-> reverse,
                     pushed |-> LimitChanged, maxv |-> max_voltage,
                     prevMaxv |-> tick.maxv,
                     prevLeft |-> last_left_rpm, prevRight |-> last_right_rpm,
                     setLeft |-> IF rpm THEN AsI32(lim.left) ELSE tick.setLeft,
                     setRight |-> IF rpm THEN AsI32(lim.right) ELSE tick.setRight,
                     prevSetLeft |-> tick.setLeft,
                     prevSetRight |-> tick.setRight,
                     step |-> max_acceleration_loop,
                     wrote |-> action # Empty]
         /\ lastOp' = Op("tick", 0)
         /\ UNCHANGED <<action, nextId, futFlag, futPoll, max_voltage,
                        reverse, snapshot, max_acceleration, cmds, retired, actVars>>

\* ------------------------------------------------ caller operations
\* An action leaving the slot before its flag was set is retired.
Retire(how) ==
    IF action # Empty /\ action.flag \notin settled
    THEN [retired EXCEPT ![action.id] = how]
    ELSE retired

\* A caller operation's borrows, on top of those held by suspended tasks.
CallerBorrows(evs) ==
    LET st == AfterBorrows(evs)
    IN  /\ held' = st.cells
        /\ panicked' = st.panic

FutureFlagFresh(f) == f + MaxActions

\* The flag boxed_action gives the future: bool, a clone of the Rc put in
\* the slot.
FutureFlag(f) == f

InstallIfEmpty(new) == IF action = Empty THEN new ELSE action

\* *action = Some((new_action, flag)): the slot is replaced, whatever it held.
Install(new) == new

CancelledSlotKept == action

\* *action = None
CancelledSlot == Empty

\* Drivetrain::set_voltage
SetVoltage(v) ==
    /\ ~panicked
    /\ nextId <= MaxActions
    /\ CallerBorrows(<<BM("action"), D("action")>>)
    /\ action' = Install(Slot(nextId, "Voltage", v, nextId))
    /\ nextId' = nextId + 1
    /\ retired' = Retire("replaced")
    /\ lastOp' = Op("set_voltage", nextId)
    /\ UNCHANGED <<settled, futFlag, futPoll, max_voltage, reverse, snapshot,
                   motors, limit, last_left_rpm, last_right_rpm,
                   max_acceleration, cmds, tick, actVars>>

\* Drivetrain::boxed_action (and action, which boxes and calls it)
BoxedAction ==
    /\ ~panicked
    /\ nextId <= MaxActions
    /\ CallerBorrows(<<BM("action"), D("action")>>)
    /\ action' = Install(Slot(nextId, "Generic", Pair(0, 0, "Voltage"), nextId))
    /\ futFlag' = [futFlag EXCEPT ![nextId] = FutureFlag(nextId)]
    /\ nextId' = nextId + 1
    /\ retired' = Retire("replaced")
    /\ lastOp' = Op("action", nextId)
    /\ UNCHANGED <<settled, futPoll, max_voltage, reverse, snapshot,
                   motors, limit, last_left_rpm, last_right_rpm,
                   max_acceleration, cmds, tick, actVars>>

\* Drivetrain::cancel_action
CancelAction ==
    /\ ~panicked
    /\ CallerBorrows(<<BM("action"), D("action")>>)
    /\ action' = CancelledSlot
    /\ retired' = Retire("cancelled")
    /\ lastOp' = Op("cancel", action.id)
    /\ UNCHANGED <<nextId, settled, futFlag, futPoll, max_voltage, reverse,
                   snapshot, motors, limit, last_left_rpm, last_right_rpm,
                   max_acceleration, cmds, tick, actVars>>

\* Drivetrain::set_max_voltage
SetMaxVoltage(l) ==
    /\ ~panicked
    /\ CallerBorrows(<<BM("max_voltage"), D("max_voltage")>>)
    /\ max_voltage' = l
    /\ lastOp' = Op("set_max_voltage", 0)
    /\ UNCHANGED <<action, nextId, settled, futFlag, futPoll, reverse,
                   snapshot, motors, limit, last_left_rpm, last_right_rpm,
                   max_acceleration, cmds, retired, tick, actVars>>

\* TrackingSubsystem::set_reverse, through the Rc<RefCell<TrackingSubsystem>>
SetReverse(b) ==
    /\ ~panicked
    /\ CallerBorrows(<<BM("tracking"), BM("reverse"), D("reverse"),
                       D("tracking")>>)
    /\ reverse' = b
    /\ lastOp' = Op("set_reverse", 0)
    /\ UNCHANGED <<action, nextId, settled, futFlag, futPoll, max_voltage,
                   snapshot, motors, limit, last_left_rpm, last_right_rpm,
                   max_acceleration, cmds, retired, tick, actVars>>

\* TrackingSubsystem::set_current: reads raw_heading, stores the heading
\* offset, then `*self.current.borrow_mut() = if *self.reverse.borrow()`.
SetCurrent(p) ==
    /\ ~panicked
    /\ CallerBorrows(<<BM("tracking"), B("current"), D("current"),
                       BM("heading_offset"), D("heading_offset"),
                       B("reverse"), BM("current"), D("current"),
                       D("reverse"), D("tracking")>>)
    /\ snapshot' = p
    /\ lastOp' = Op("set_current", 0)
    /\ UNCHANGED <<action, nextId, settled, futFlag, futPoll, max_voltage,
                   reverse, motors, limit, last_left_rpm, last_right_rpm,
                   max_acceleration, cmds, retired, tick, actVars>>

\* TrackingSubsystem::current
Current ==
    /\ ~panicked
    /\ CallerBorrows(<<B("tracking"), B("current"), D("current"),
                       B("reverse"), D("reverse"), D("tracking")>>)
    /\ lastOp' = Op("current", 0)
    /\ UNCHANGED <<action, nextId, settled, futFlag, futPoll, max_voltage,
                   reverse, snapshot, motors, limit, last_left_rpm,
                   last_right_rpm, max_acceleration, cmds, retired, tick, actVars>>

\* DrivetrainActionFuture::poll: Ready when the flag is set; otherwise it
\* wakes itself, calls the callback with the tracking pose and is Pending.
FuturePoll(a) ==
    IF futFlag[a] \in settled THEN "Ready" ELSE "Pending"

Poll(a) ==
    /\ ~panicked
    /\ futFlag[a] # 0
    /\ futPoll[a] # "Ready"
    /\ CallerBorrows(IF FuturePoll(a) = "Ready" THEN <<>>
                     ELSE <<B("tracking"), B("current"), D("current"),
                            BM("callback"), D("callback"), D("tracking")>>)
    /\ futPoll' = [futPoll EXCEPT ![a] = FuturePoll(a)]
    /\ lastOp' = Op("poll", a)
    /\ UNCHANGED <<action, nextId, settled, futFlag, max_voltage, reverse,
                   snapshot, motors, limit, last_left_rpm, last_right_rpm,
                   max_acceleration, cmds, retired, tick, actVars>>

\* ------------------------------------------------ the odometry task
\* Borrows of one pass of the odometry loop (tracking/mod.rs 58-101): the
\* previous heading is copied out of the snapshot, the heading offset is
\* read, the wheels read their sensors (drivetrain motor groups may be
\* passed as wheels), and the snapshot is replaced.
OdometryBorrows ==
    <<B("current"), D("current"), B("heading_offset"), D("heading_offset"),
      B("left"), D("left"), B("right"), D("right"),
      BM("current"), D("current")>>

OdometryTick ==
    /\ ~panicked
    /\ \E p \in Poses :
         LET st == AfterBorrows(OdometryBorrows)
         IN  /\ snapshot' = p
             /\ held' = st.cells
             /\ panicked' = st.panic
    /\ lastOp' = Op("odometry", 0)
    /\ UNCHANGED <<action, nextId, settled, futFlag, futPoll, max_voltage,
                   reverse, motors, limit, last_left_rpm, last_right_rpm,
                   max_acceleration, cmds, retired, tick, actVars>>

\* ====================================================== Part 2: actions
\* Angles are integers, QuarterTurn of them to pi/2.
HalfTurn == 2 * QuarterTurn
FullTurn == 2 * HalfTurn

\* f64::cos and f64::sin of a multiple of a quarter turn, the angles of
\* the poses and bearings of the seeking actions' inputs.
Cos(a) ==
    LET k == (a \div QuarterTurn) % 4
    IN  IF k = 0 THEN 1 ELSE IF k = 2 THEN -1 ELSE 0
Sin(a) == Cos(a - QuarterTurn)
\* f64::atan2(y, x) of a vector along an axis.
Atan2(y, x) ==
    CASE y = 0 /\ x >= 0 -> 0
      [] y = 0 /\ x < 0 -> HalfTurn
      [] x = 0 /\ y > 0 -> QuarterTurn
      [] x = 0 /\ y < 0 -> -QuarterTurn
\* The Euclidean norm of a vector whose norm is an integer.
Norm(v) ==
    CHOOSE n \in 0 .. (Abs(v.x) + Abs(v.y)) : n * n = v.x * v.x + v.y * v.y
\* nalgebra::distance
Distance(p, q) == Norm(Point(p.x - q.x, p.y - q.y))
\* Angle::wrapped_half: the angle brought into [-pi, pi).
WrappedHalf(a) == ((a + HalfTurn) % FullTurn) - HalfTurn

\* ------------------------------------------------------- Tolerances
\* utils/settling.rs: check(error, velocity) is true iff |error| <
\* error_tolerance and |velocity| < velocity_tolerance have held together
\* for tolerance_duration, or the time elapsed has reached timeout.
\* Time is counted in runner ticks; elapsed is the time since the timer
\* started, which it does at the first check; since is the time at which
\* the band was entered, -1 outside the band.
TolerancesNew(cfg) ==
    [error_tolerance |-> cfg.error_tolerance,
     velocity_tolerance |-> cfg.velocity_tolerance,
     tolerance_duration |-> cfg.tolerance_duration,
     timeout |-> cfg.timeout, elapsed |-> 0, since |-> -1]

\* error and velocity are the rationals error/den and velocity/den.
InTolerance(t, error, velocity, den) ==
    /\ Abs(error) < t.error_tolerance * den
    /\ Abs(velocity) < t.velocity_tolerance * den

TolerancesCheck(t, error, velocity, den) ==
    LET in == InTolerance(t, error, velocity, den)
        since == IF ~in THEN -1
                 ELSE IF t.since < 0 THEN t.elapsed ELSE t.since
    IN  [ok |-> (in /\ t.elapsed - since >= t.tolerance_duration)
                   \/ t.elapsed >= t.timeout,
         tolerances |-> [t EXCEPT !.since = since]]

\* Time passes between two checks: dt ticks.
TolerancesSleep(t, dt) == [t EXCEPT !.elapsed = Min(t.elapsed + dt, MaxTicks)]

\* ------------------------------------------------------------ inputs
\* ActionConfig::turn_tolerances / linear_tolerances: one configuration
\* that can settle in the band and one that only times out.
TolConfigs ==
    {[error_tolerance |-> 1, velocity_tolerance |-> 1,
      tolerance_duration |-> 1, timeout |-> MaxTicks],
     [error_tolerance |-> 1, velocity_tolerance |-> 1,
      tolerance_duration |-> MaxTicks, timeout |-> MaxTicks - 1]}
\* Reported headings, in [0, 2 pi).
Headings == 0 .. (FullTurn - 1)
\* Target headings of a RotationAction: one within a half turn of every
\* heading's neighbourhood, one a full turn further.
RotationTargets == {1, FullTurn + 1}
\* Wheel offsets, wheel and linear velocities of an ActionContext.
Offsets == {0, 2}
Velocities == {0, 1}
\* Distance setpoints of a ForwardAction.
Distances == {1}
\* Positions of the robot, on the axes through the target point, and
\* the target points.
Positions == {Point(0, 0), Point(1, 0), Point(0, 3)}
TargetPoints == {Origin}
\* Headings that are a multiple of a quarter turn.
RightAngles == {k * QuarterTurn : k \in 0 .. 3}
\* Outputs of a PID controller (the pid crate), an input of the model.
Outputs == {-1, 2}
\* Ticks that pass from one update to the next (a sleep of LOOP_TIME ms
\* that may overrun).
TickTimes == {1, 2}
\* The linear controller's outputs and the tick durations of the seeking
\* actions' inputs.
LinearOutputs == {2}
\* The angular controller's outputs of the composite actions' inputs.
AngularOutputs == {-1}
SeekTimes == {1}

\* What an update did: the action afterwards, its return value, and the
\* error and velocity (over den) it gave to Tolerances::check.
Updated(a, ret, error, velocity, den) ==
    [action |-> a, ret |-> ret, error |-> error, velocity |-> velocity,
     den |-> den]

\* --------------------------------------------------- RotationAction
RotationNew(target, cfg) ==
    [NoAction EXCEPT !.kind = "Rotation", !.setpoint = target,
                     !.tolerances = TolerancesNew(cfg)]

\* The two while loops of the first update: the setpoint moved by full
\* turns until setpoint - heading lies in [-pi, pi].
RECURSIVE NormalizeSetpoint(_, _)
NormalizeSetpoint(setpoint, heading) ==
    IF setpoint - heading > HalfTurn
    THEN NormalizeSetpoint(setpoint - FullTurn, heading)
    ELSE IF setpoint - heading < -HalfTurn
    THEN NormalizeSetpoint(setpoint + FullTurn, heading)
    ELSE setpoint

RotationUpdateUnsettled(a, context, output) ==
    LET setpoint == IF a.initialized THEN a.setpoint
                    ELSE NormalizeSetpoint(a.setpoint, context.heading)
        error == setpoint - context.heading
        velocity == context.left_velocity - context.right_velocity
        c == TolerancesCheck(a.tolerances, error, velocity, 1)
    IN  Updated([a EXCEPT !.setpoint = setpoint, !.initialized = TRUE,
                          !.tolerances = c.tolerances],
                RetSome(Pair(output, -output, "Voltage")),
                error, velocity, 1)

\* RotationAction::update.  output: next_control_output(heading).output.
RotationUpdate(a, context, output) ==
    LET setpoint == IF a.initialized THEN a.setpoint
                    ELSE NormalizeSetpoint(a.setpoint, context.heading)
        error == setpoint - context.heading
        velocity == context.left_velocity - context.right_velocity
        c == TolerancesCheck(a.tolerances, error, velocity, 1)
    IN  Updated([a EXCEPT !.setpoint = setpoint, !.initialized = TRUE,
                          !.tolerances = c.tolerances],
                IF c.ok THEN RetNone
                ELSE RetSome(Pair(output, -output, "Voltage")),
                error, velocity, 1)

\* ---------------------------------------------------- ForwardAction
ForwardNew(distance, cfg) ==
    [NoAction EXCEPT !.kind = "Forward", !.setpoint = distance,
                     !.tolerances = TolerancesNew(cfg)]

\* ForwardAction::update.  average_distance, error and the velocity are
\* halves: they are carried doubled, over den = 2.
ForwardUpdate(a, context, output) ==
    LET il == IF a.initial_left_offset.some THEN a.initial_left_offset
              ELSE Some(context.left_offset)
        ir == IF a.initial_right_offset.some THEN a.initial_right_offset
              ELSE Some(context.right_offset)
        average_distance2 == context.left_offset - il.value
                             + context.right_offset - ir.value
        error2 == 2 * a.setpoint - average_distance2
        velocity2 == context.left_velocity + context.right_velocity
        c == TolerancesCheck(a.tolerances, error2, velocity2, 2)
    IN  Updated([a EXCEPT !.initial_left_offset = il,
                          !.initial_right_offset = ir,
                          !.tolerances = c.tolerances],
                IF c.ok THEN RetNone
                ELSE RetSome(Pair(output, output, "Voltage")),
                error2, velocity2, 2)

\* ---------------------------------------------------- SeekingAction
SeekingNew(target, close, cfg) ==
    [NoAction EXCEPT !.kind = "Seeking", !.target_point = target,
                     !.close = close, !.tolerances = TolerancesNew(cfg)]

\* SeekingAction::reversed
SeekingReversed(a) == [a EXCEPT !.reverse = TRUE]

\* SeekingAction::update.  linear, angular: the outputs of the linear and
\* the angular PID controller.
SeekingUpdate(a, context, linear, angular) ==
    LET local_target == Point(a.target_point.x - context.offset.x,
                              a.target_point.y - context.offset.y)
        angle_to_target == Atan2(local_target.y, local_target.x)
        error_angular ==
            WrappedHalf(angle_to_target
                        - (IF a.reverse THEN context.heading + HalfTurn
                           ELSE context.heading))
        error_distance == Norm(local_target)
        close == error_distance < a.close
        c == TolerancesCheck(a.tolerances, error_distance,
                             context.linear_velocity, 1)
        output_angular == IF close THEN 0 ELSE angular
        output_linear == linear * Max(Cos(error_angular), 0)
                         * (IF a.reverse THEN -1 ELSE 1)
    IN  Updated([a EXCEPT !.tolerances = c.tolerances],
                IF c.ok THEN RetNone
                ELSE RetSome(Pair(output_linear - output_angular,
                                  output_linear + output_angular, "Voltage")),
                error_distance, context.linear_velocity, 1)

\* -------------------------------------------------- BoomerangAction
\* config.boomerang_lock_distance.unwrap_or(200.0)
DefaultLockDistance == 200

BoomerangNew(target, cfg) ==
    [NoAction EXCEPT !.kind = "Boomerang", !.target_point = target,
                     !.settling_distance = DefaultLockDistance,
                     !.tolerances = TolerancesNew(cfg)]

\* BoomerangAction::with_settling_distance
WithSettlingDistance(a, settling_distance) ==
    [a EXCEPT !.settling_distance = settling_distance]

\* The angle moved by full turns to within a half turn of the heading
\* (the while loops of boomerang.rs 55-60 and 69-74).
ClosestAngle(angle, heading) == NormalizeSetpoint(angle, heading)

\* BoomerangAction::update: both PID controllers are stepped, then the
\* tolerances are checked on the distance to the target.  linear,
\* rotational: the outputs of the linear and the rotational controller.
BoomerangUpdate(a, context, linear, rotational) ==
    LET dx == a.target_point.x - context.offset.x
        dy == a.target_point.y - context.offset.y
        h == context.heading
        distance == Distance(a.target_point, context.offset)
        angle0 == ClosestAngle(Atan2(dy, dx), h)
        inverted == Abs(angle0 - h) > QuarterTurn
        angle1 == IF angle0 - h > QuarterTurn THEN angle0 - HalfTurn
                  ELSE IF angle0 - h < -QuarterTurn THEN angle0 + HalfTurn
                  ELSE angle0
        angle_to_target == ClosestAngle(angle1, h)
        far == distance > a.settling_distance
        dot_product == Cos(h) * dx + Sin(h) * dy
        c == TolerancesCheck(a.tolerances, distance,
                             context.linear_velocity, 1)
        linear_scalar == Abs(Cos(h - angle_to_target))
        linear_voltage == linear * linear_scalar
    IN  Updated([a EXCEPT
                   !.setpoint =
                       IF far \/ ~a.rotational_setpoint_initialized
                       THEN angle_to_target ELSE @,
                   !.rotational_setpoint_initialized = TRUE,
                   !.linear_setpoint =
                       IF far THEN (IF inverted THEN -distance ELSE distance)
                       ELSE dot_product,
                   !.tolerances = c.tolerances],
                IF c.ok THEN RetNone
                ELSE RetSome(Pair(linear_voltage - rotational,
                                  linear_voltage + rotational, "RPM")),
                distance, context.linear_velocity, 1)

\* ------------------------------------------- the runner updating act
\* The runner calls update once per tick until it returns None, when it
\* sets the DoneFlag (mod.rs 112-113, 169-171); then it sleeps.
Finished == upd.ret = RetNone

RunnerUpdate(r, context, dt) ==
    /\ ctx' = context
    /\ act' = [r.action EXCEPT
                 !.tolerances = TolerancesSleep(r.action.tolerances, dt)]
    /\ upd' = [kind |-> act.kind, ret |-> r.ret, error |-> r.error,
               velocity |-> r.velocity, den |-> r.den,
               before |-> act.tolerances]
    /\ UNCHANGED <<driveVars, trackVars, pathVars>>

RotationTick ==
    /\ act.kind = "Rotation" /\ ~Finished
    /\ \E h \in Headings, lv \in Velocities, rv \in Velocities,
          o \in Outputs, dt \in TickTimes :
         LET context == Context(h, 0, 0, lv, rv, Origin, 0)
         IN  /\ RunnerUpdate(RotationUpdate(act, context, o), context, dt)
             /\ pid' = PidOutputs(0, o)

ForwardTick ==
    /\ act.kind = "Forward" /\ ~Finished
    /\ \E lo \in Offsets, ro \in Offsets, lv \in Velocities,
          rv \in Velocities, o \in Outputs, dt \in TickTimes :
         LET context == Context(0, lo, ro, lv, rv, Origin, 0)
         IN  /\ RunnerUpdate(ForwardUpdate(act, context, o), context, dt)
             /\ pid' = PidOutputs(o, 0)

SeekingTick ==
    /\ act.kind = "Seeking" /\ ~Finished
    /\ \E h \in RightAngles, x \in Positions, v \in Velocities,
          l \in LinearOutputs, o \in Outputs, dt \in SeekTimes :
         LET context == Context(h, 0, 0, 0, 0, x, v)
         IN  /\ RunnerUpdate(SeekingUpdate(act, context, l, o), context, dt)
             /\ pid' = PidOutputs(l, o)

BoomerangTick ==
    /\ act.kind = "Boomerang" /\ ~Finished
    /\ \E h \in RightAngles, x \in Positions, v \in Velocities,
          l \in LinearOutputs, o \in Outputs, dt \in SeekTimes :
         LET context == Context(h, 0, 0, 0, 0, x, v)
         IN  /\ RunnerUpdate(BoomerangUpdate(act, context, l, o), context, dt)
             /\ pid' = PidOutputs(l, o)

\* =====================================================================
\* The composite actions: TurnToPointAction, LazyAction, DriveToPointAction
\* =====================================================================

\* ------------------------------------------------ TurnToPointAction
angle_between_points(from, to) == Atan2(to.y - from.y, to.x - from.x)

TurnToPointNew(target, rev, config) ==
    [kind |-> "TurnToPoint", target |-> target, config |-> config,
     reverse |-> rev, action |-> None]

TurnToPointUpdateRecomputing(a, context, output) ==
    LET inner ==
            RotationNew(angle_between_points(context.offset, a.target)
                        + (IF a.reverse THEN HalfTurn ELSE 0), a.config)
        r == RotationUpdate(inner, context, output)
    IN  Updated([a EXCEPT !.action = Some(r.action)], r.ret, r.error,
                r.velocity, r.den)

\* TurnToPointAction::update: the RotationAction is built when there is
\* none yet, then updated.
TurnToPointUpdate(a, context, output) ==
    LET inner ==
            IF a.action.some THEN a.action.value
            ELSE RotationNew(angle_between_points(context.offset, a.target)
                             + (IF a.reverse THEN HalfTurn ELSE 0), a.config)
        r == RotationUpdate(inner, context, output)
    IN  Updated([a EXCEPT !.action = Some(r.action)], r.ret, r.error,
                r.velocity, r.den)

\* ------------------------------------------------------- LazyAction
\* context.pose
ContextPose(context) == [offset |-> context.offset, heading |-> context.heading]

\* The closure given to LazyAction::new: a turn by a quarter turn from the
\* heading of the pose it is called with.  config: what the closure
\* captured.
Initializer(pose, config) == RotationNew(pose.heading + QuarterTurn, config)

LazyNew(config) ==
    [kind |-> "Lazy", action |-> None, initializer |-> Some(config)]

LazyUpdateReinitializing(a, context, output) ==
    LET a1 == IF a.initializer.some
              THEN [a EXCEPT !.action = Some(Initializer(ContextPose(context),
                                                         a.initializer.value))]
              ELSE a
    IN  IF a1.action.some
        THEN LET r == RotationUpdate(a1.action.value, context, output)
             IN  Updated([a1 EXCEPT !.action = Some(r.action)], r.ret,
                         r.error, r.velocity, r.den)
        ELSE Updated(a1, RetNone, 0, 0, 1)

\* LazyAction::update
LazyUpdate(a, context, output) ==
    LET a1 == IF ~a.action.some /\ a.initializer.some
              THEN [a EXCEPT !.action = Some(Initializer(ContextPose(context),
                                                         a.initializer.value)),
                             !.initializer = None]
              ELSE a
    IN  IF a1.action.some
        THEN LET r == RotationUpdate(a1.action.value, context, output)
             IN  Updated([a1 EXCEPT !.action = Some(r.action)], r.ret,
                         r.error, r.velocity, r.den)
        ELSE Updated(a1, RetNone, 0, 0, 1)

\* ----------------------------------------------- DriveToPointAction
DriveToPointNew(target, turn_config, forward_config) ==
    [kind |-> "DriveToPoint", target |-> target, state |-> "NotStarted",
     child |-> NoAction, turn_config |-> turn_config,
     forward_config |-> forward_config]

\* The result of an update: the action, what it returned, and the states
\* it went through.
Visited(a, ret, visited) == [action |-> a, ret |-> ret, visited |-> visited]

DriveToPointDrivingNotDone(a, context, linear, visited) ==
    LET f == ForwardUpdate(a.child, context, linear)
    IN  IF f.ret.some
        THEN Visited([a EXCEPT !.child = f.action], f.ret, visited)
        ELSE Visited([a EXCEPT !.child = f.action], RetNone, visited)

\* The arm DriveToPointState::Driving of DriveToPointAction::update
DriveToPointDriving(a, context, linear, visited) ==
    LET f == ForwardUpdate(a.child, context, linear)
    IN  IF f.ret.some
        THEN Visited([a EXCEPT !.child = f.action], f.ret, visited)
        ELSE Visited([a EXCEPT !.state = "Done", !.child = NoAction],
                     RetNone, Append(visited, "Done"))

\* The arm DriveToPointState::Turning, with the self.update(context) it
\* ends with when the child returned None.
DriveToPointTurning(a, context, angular, linear, visited) ==
    LET t == TurnToPointUpdate(a.child, context, angular)
    IN  IF t.ret.some
        THEN Visited([a EXCEPT !.child = t.action], t.ret, visited)
        ELSE DriveToPointDriving(
                 [a EXCEPT !.state = "Driving",
                           !.child = ForwardNew(
                                         Distance(a.target, context.offset),
                                         a.forward_config)],
                 context, linear, Append(visited, "Driving"))

\* DriveToPointAction::update.  angular, linear: the outputs of the turn
\* and of the forward controller.
DriveToPointUpdate(a, context, angular, linear) ==
    CASE a.state = "NotStarted" ->
             DriveToPointTurning(
                 [a EXCEPT !.state = "Turning",
                           !.child = TurnToPointNew(a.target, FALSE,
                                                    a.turn_config)],
                 context, angular, linear, <<"NotStarted", "Turning">>)
      [] a.state = "Turning" ->
             DriveToPointTurning(a, context, angular, linear, <<"Turning">>)
      [] a.state = "Driving" ->
             DriveToPointDriving(a, context, linear, <<"Driving">>)
      [] a.state = "Done" -> Visited(a, RetNone, <<"Done">>)

\* ------------------------------------- the runner updating a composite
LeafSleep(a, dt) == [a EXCEPT !.tolerances = TolerancesSleep(@, dt)]

OptionSleep(o, dt) == IF o.some THEN Some(LeafSleep(o.value, dt)) ELSE o

\* The time of a tick passing for the tolerances of the action at work.
ActionSleep(a, dt) ==
    CASE a.kind \in {"TurnToPoint", "Lazy"} ->
             [a EXCEPT !.action = OptionSleep(@, dt)]
      [] a.kind = "DriveToPoint" /\ a.state = "Turning" ->
             [a EXCEPT !.child.action = OptionSleep(@, dt)]
      [] a.kind = "DriveToPoint" /\ a.state = "Driving" ->
             [a EXCEPT !.child = LeafSleep(@, dt)]
      [] OTHER -> a

NoPose == [offset |-> Origin, heading |-> 0]

NoCompositeUpdate ==
    [kind |-> "None", ret |-> NoCall, from |-> NoAction,
     first |-> NoPose, visited |-> <<>>]

\* One tick of the runner on a composite action: update, then the sleep.
\* upd keeps the action as it was before the update, the pose of the
\* first update of a TurnToPointAction or LazyAction, and the states the
\* update of a DriveToPointAction went through.
CompositeUpdate(a, ret, visited, context, dt) ==
    /\ ctx' = context
    /\ act' = ActionSleep(a, dt)
    /\ upd' = [kind |-> act.kind, ret |-> ret, from |-> act,
               first |-> IF act.kind = "DriveToPoint" THEN NoPose
                         ELSE IF upd.ret.called THEN upd.first
                         ELSE ContextPose(context),
               visited |-> visited]
    /\ UNCHANGED <<driveVars, trackVars, pathVars>>

TurnToPointTick ==
    /\ act.kind = "TurnToPoint" /\ ~Finished
    /\ \E h \in RightAngles, x \in Positions, v \in Velocities,
          o \in AngularOutputs, dt \in SeekTimes :
         LET context == Context(h, 0, 0, v, 0, x, 0)
             r == TurnToPointUpdate(act, context, o)
         IN  /\ CompositeUpdate(r.action, r.ret, <<>>, context, dt)
             /\ pid' = PidOutputs(0, o)

LazyTick ==
    /\ act.kind = "Lazy" /\ ~Finished
    /\ \E h \in RightAngles, x \in Positions, v \in Velocities,
          o \in AngularOutputs, dt \in SeekTimes :
         LET context == Context(h, 0, 0, v, 0, x, 0)
             r == LazyUpdate(act, context, o)
         IN  /\ CompositeUpdate(r.action, r.ret, <<>>, context, dt)
             /\ pid' = PidOutputs(0, o)

\* A DriveToPointAction is updated again after it returned None: nothing
\* in the Action trait forbids the call.
DriveToPointTick ==
    /\ act.kind = "DriveToPoint"
    /\ \E h \in RightAngles, x \in Positions, d \in Offsets,
          v \in Velocities, o \in AngularOutputs, l \in LinearOutputs,
          dt \in SeekTimes :
         LET context == Context(h, d, d, v, 0, x, 0)
             r == DriveToPointUpdate(act, context, o, l)
         IN  /\ CompositeUpdate(r.action, r.ret, r.visited, context, dt)
             /\ pid' = PidOutputs(l, o)

\* =====================================================================
\* PurePursuitAction, on a path sampled at the points PathPoints
\* =====================================================================

\* The path is sampled at pth.points.  t is the index of a sample, from
\* 1 (t = 0.0) to Len(pth.points) (t = 1.0); the searches step from
\* sample to sample.
PathStart == 1
PathEnd == Len(pth.points)
\* Path::evaluate.  Past either end of the samples, where the search
\* overshoots, the path goes on along the line through its last two
\* samples.
Evaluate(t) ==
    LET p == pth.points
        n == Len(p)
    IN  IF t < 1
        THEN Point(p[1].x + (1 - t) * (p[1].x - p[2].x),
                   p[1].y + (1 - t) * (p[1].y - p[2].y))
        ELSE IF t > n
        THEN Point(p[n].x + (t - n) * (p[n].x - p[n - 1].x),
                   p[n].y + (t - n) * (p[n].y - p[n - 1].y))
        ELSE p[t]
\* Path::length_until: the arc length, here along a straight line.
LengthUntil(t) == Distance(Evaluate(PathStart), Evaluate(t))
\* Path::length
PathLength == LengthUntil(PathEnd)
\* The overshoot that PurePursuitAction asks closest_point for,
\* Some(0.1): a tenth of the path, in samples.
Overshoot == (PathEnd - PathStart) \div 10
\* f64::MAX, the distance the searches start from
F64Max == 1000000
\* point_on_radius answers with a sample less than 3.0 off the radius
RadiusSlack == 3

\* The while loop of Path::point_on_radius: the sample from t on whose
\* distance to the point is nearest to the radius.
RECURSIVE RadiusScan(_, _, _, _)
RadiusScan(point, radius, t, closest) ==
    IF t > PathEnd THEN closest
    ELSE LET off == Abs(Distance(Evaluate(t), point) - radius)
         IN  RadiusScan(point, radius, t + 1,
                        IF off < closest.distance
                        THEN [t |-> t, distance |-> off] ELSE closest)

\* point_on_radius answering with its nearest sample however far off the
\* radius that is.
PointOnRadiusAlways(point, radius, initial_t) ==
    Some(RadiusScan(point, radius, initial_t,
                    [t |-> initial_t, distance |-> F64Max]).t)
\* Path::point_on_radius
PointOnRadius(point, radius, initial_t) ==
    LET closest == RadiusScan(point, radius, initial_t,
                              [t |-> initial_t, distance |-> F64Max])
    IN  IF closest.distance < RadiusSlack THEN Some(closest.t) ELSE None

\* The forward and the reverse search of Path::closest_point; each stops
\* at the first sample farther than the last one seen.
RECURSIVE ForwardScan(_, _, _, _, _)
ForwardScan(point, t, closest, last_distance, overshoot) ==
    IF t > PathEnd + overshoot
    THEN [closest |-> closest, last_distance |-> last_distance]
    ELSE LET distance == Distance(Evaluate(t), point)
             c == IF distance < closest.distance
                  THEN [t |-> t, distance |-> distance] ELSE closest
         IN  IF distance > last_distance
             THEN [closest |-> c, last_distance |-> last_distance]
             ELSE ForwardScan(point, t + 1, c, distance, overshoot)

RECURSIVE ReverseScan(_, _, _, _, _)
ReverseScan(point, t, closest, last_distance, overshoot) ==
    IF t < PathStart - overshoot THEN closest
    ELSE LET distance == Distance(Evaluate(t), point)
             c == IF distance < closest.distance
                  THEN [t |-> t, distance |-> distance] ELSE closest
         IN  IF distance > last_distance THEN c
             ELSE ReverseScan(point, t - 1, c, distance, overshoot)

\* closest_point answering with the hint itself, whatever lies around it.
ClosestPointHint(point, initial_t, overshoot) == initial_t
\* Path::closest_point; overshoot is the number of samples that the
\* search may go past either end of the path.
ClosestPoint(point, initial_t, overshoot) ==
    LET f == ForwardScan(point, initial_t,
                         [t |-> initial_t, distance |-> F64Max],
                         Distance(Evaluate(initial_t), point), overshoot)
    IN  ReverseScan(point, initial_t, f.closest, f.last_distance,
                    overshoot).t

\* The paths searched for ties: a straight line whose samples lie 4
\* apart and an arc around the origin, and the points asked about on
\* each (on the line; the centre of the arc).
LinePoints == <<Point(0, 0), Point(4, 0), Point(8, 0)>>
ArcPoints == <<Point(5, 0), Point(0, 5), Point(-5, 0)>>
\* A path that runs out along the x axis and turns back on itself, so
\* that the distance to a point has more than one valley.
BackPoints == <<Point(0, 0), Point(4, 0), Point(8, 0), Point(6, 0), Point(2, 0)>>
SearchPaths == {LinePoints, ArcPoints, BackPoints}
SearchPoints ==
    IF pth.points = ArcPoints THEN {Origin}
    ELSE {Point(x, 0) : x \in -1 .. 8}
SearchRadii == {0, 2, 5}
\* The overshoots asked for: none, or one sample past either end (on
\* the arc none, the model having no exact distance off the arc).
SearchOvershoots == IF pth.points = ArcPoints THEN {0} ELSE {0, 1}
\* A call of closest_point(point, Some(initial_t), overshoot) on the
\* path, the hint inside the window searched.
ClosestPointCall ==
    /\ \E point \in SearchPoints, overshoot \in SearchOvershoots :
       \E initial_t \in PathStart - overshoot .. PathEnd + overshoot :
         pth' = [pth EXCEPT !.search =
                    [kind |-> "closest", point |-> point, radius |-> 0,
                     initial_t |-> initial_t, overshoot |-> overshoot,
                     result |-> Some(ClosestPoint(point, initial_t,
                                                  overshoot))]]
    /\ UNCHANGED <<driveVars, act, upd, pid, ctx, trackVars, cmp>>
\* A call of point_on_radius(point, radius, Some(initial_t)) on the path.
PointOnRadiusCall ==
    /\ \E point \in SearchPoints, radius \in SearchRadii,
          initial_t \in PathStart .. PathEnd + 1 :
         pth' = [pth EXCEPT !.search =
                    [kind |-> "radius", point |-> point, radius |-> radius,
                     initial_t |-> initial_t, overshoot |-> 0,
                     result |-> PointOnRadius(point, radius, initial_t)]]
    /\ UNCHANGED <<driveVars, act, upd, pid, ctx, trackVars, cmp>>

PurePursuitNew(cfg, lookahead, max_v) ==
    [kind |-> "PurePursuit", path_total |-> PathLength,
     end_pose |-> Evaluate(PathEnd), target_point |-> Evaluate(PathStart),
     last_t |-> PathStart, last_path_distance |-> 0,
     lookahead |-> lookahead, settled |-> FALSE, max_voltage |-> max_v,
     final_seeking |-> FALSE, tolerances |-> TolerancesNew(cfg)]

\* The robot drives backward when the target lies more than a quarter
\* turn off its heading (the angle is first moved to within a half turn of
\* the heading).
Backward(angle, heading) ==
    Abs(ClosestAngle(angle, heading) - heading) > QuarterTurn

\* The result of an update: the action, what it returned and what
\* point_on_radius answered (None when it was not called).
Pursued(a, ret, found) == [action |-> a, ret |-> ret, found |-> found]

\* The final_seeking branch of PurePursuitAction::update
FinalSeekingUpdate(a, context, linear, rotational) ==
    LET distance == Distance(a.target_point, context.offset)
        a1 == IF distance > a.lookahead THEN [a EXCEPT !.final_seeking = FALSE]
              ELSE a
        angle == angle_between_points(context.offset, a.end_pose)
        linear_voltage == IF Backward(angle, context.heading) THEN -linear
                          ELSE linear
        velocity2 == context.left_velocity + context.right_velocity
        c == TolerancesCheck(a.tolerances, 2 * distance, velocity2, 2)
    IN  IF c.ok
        THEN Pursued([a1 EXCEPT !.settled = TRUE, !.tolerances = c.tolerances],
                     RetNone, None)
        ELSE Pursued([a1 EXCEPT !.tolerances = c.tolerances],
                     RetSome(DrivetrainPairMax(
                                 Pair(linear_voltage - rotational,
                                      linear_voltage + rotational, "Voltage"),
                                 a.max_voltage)),
                     None)

\* The path following branch of PurePursuitAction::update
PathFollowingUpdate(a, context, linear, rotational) ==
    LET current_t == ClosestPoint(context.offset, a.last_t, Overshoot)
        path_distance == LengthUntil(current_t)
        error == a.path_total - path_distance
        velocity2 == context.left_velocity + context.right_velocity
        c == TolerancesCheck(a.tolerances, 2 * error, velocity2, 2)
        found == PointOnRadius(context.offset, a.lookahead, current_t)
        target == IF found.some THEN Evaluate(found.value) ELSE a.target_point
        handoff == /\ ~found.some
                   /\ Distance(a.target_point, context.offset) <= a.lookahead
        angle == angle_between_points(context.offset, target)
        linear_voltage == IF Backward(angle, context.heading) THEN -linear
                          ELSE linear
    IN  IF c.ok
        THEN Pursued([a EXCEPT !.settled = TRUE, !.tolerances = c.tolerances],
                     RetNone, None)
        ELSE Pursued([a EXCEPT !.last_path_distance = path_distance,
                               !.last_t = current_t,
                               !.target_point = target,
                               !.final_seeking = handoff \/ @,
                               !.tolerances = c.tolerances],
                     RetSome(DrivetrainPairMax(
                                 Pair(linear_voltage - rotational,
                                      linear_voltage + rotational, "Voltage"),
                                 a.max_voltage)),
                     found)

\* PurePursuitAction::update
PurePursuitUpdate(a, context, linear, rotational) ==
    IF a.settled THEN Pursued(a, RetNone, None)
    ELSE IF a.final_seeking
    THEN FinalSeekingUpdate(a, context, linear, rotational)
    ELSE PathFollowingUpdate(a, context, linear, rotational)

\* The robot's positions while it follows the path.
PursuitPositions == {Point(0, 0), Point(5, 0), Point(7, 0), Point(10, 0)}
PursuitHeadings == {0, HalfTurn}
Lookaheads == {5}

NoPursuitUpdate ==
    [kind |-> "None", ret |-> NoCall, from |-> NoAction, found |-> None]

PurePursuitTick ==
    /\ act.kind = "PurePursuit" /\ ~Finished
    /\ \E h \in PursuitHeadings, x \in PursuitPositions, v \in Velocities,
          l \in LinearOutputs, o \in AngularOutputs, dt \in TickTimes :
         LET context == Context(h, 0, 0, v, v, x, v)
             r == PurePursuitUpdate(act, context, l, o)
         IN  /\ ctx' = context
             /\ act' = LeafSleep(r.action, dt)
             /\ upd' = [kind |-> act.kind, ret |-> r.ret, from |-> act,
                        found |-> r.found]
             /\ pid' = PidOutputs(l, o)
             /\ UNCHANGED <<driveVars, trackVars, pathVars>>

\* =====================================================================
\* Part 3.  The TrackingSubsystem's pose: current, set_current, reverse
\* =====================================================================

\* The mirror image over the central line: the y coordinate and the
\* heading inverted, the rest as it is (..data).
Mirror(data) ==
    [data EXCEPT !.offset = Point(@.x, -@.y), !.heading = FullTurn - @]

\* TrackingSubsystem::current
current(t) == IF t.reverse THEN Mirror(t.current) ELSE t.current

set_reverse_mirroring(t, r) ==
    [t EXCEPT !.reverse = r,
              !.current = IF r # t.reverse THEN Mirror(@) ELSE @]

\* TrackingSubsystem::set_reverse
set_reverse(t, r) == [t EXCEPT !.reverse = r]

set_current_unmirrored(t, offset, heading) ==
    LET current_raw_heading == IF t.current.raw_heading.some
                               THEN t.current.raw_heading.value ELSE 0
        data == TrackingData(offset, heading, Origin, 0, TRUE,
                             Some(current_raw_heading))
    IN  [t EXCEPT !.heading_offset = (-heading) - current_raw_heading,
                  !.current = data]

\* TrackingSubsystem::set_current
set_current(t, offset, heading) ==
    LET current_raw_heading == IF t.current.raw_heading.some
                               THEN t.current.raw_heading.value ELSE 0
        data == TrackingData(offset, heading, Origin, 0, TRUE,
                             Some(current_raw_heading))
    IN  [t EXCEPT !.heading_offset = (-heading) - current_raw_heading,
                  !.current = IF t.reverse THEN Mirror(data) ELSE data]

\* TrackingData::advance, over a tick of one unit of time: the heading
\* wrapped into [0, 2 pi), the velocity from the change of the offset and
\* the angular velocity from the change of the heading.
advance(data, new_offset, new_heading, raw_heading) ==
    TrackingData(new_offset, new_heading % FullTurn,
                 IF data.timestamp
                 THEN Point(new_offset.x - data.offset.x,
                            new_offset.y - data.offset.y)
                 ELSE Origin,
                 IF data.timestamp
                 THEN (new_heading % FullTurn) - data.heading ELSE 0,
                 TRUE, Some(raw_heading))

\* The poses given to set_current and computed by the tracking loop.
TrackOffsets == {Point(0, 0), Point(1, 2)}
TrackHeadings == {0, QuarterTurn, FullTurn - 1, -QuarterTurn}
\* The heading sensor's readings.
RawHeadings == {QuarterTurn}

\* A call of current(): tog.read is what it returned.  A read starts the
\* watch of the toggles (stage "read") or ends it (stage "reread", after
\* reverse was set to the other value and back).
TrackingCurrent ==
    /\ tog' = IF tog.stage = "back"
              THEN [tog EXCEPT !.stage = "reread", !.read = current(trk)]
              ELSE [stage |-> "read", base |-> current(trk),
                    read |-> current(trk), stored |-> trk,
                    flag |-> trk.reverse]
    /\ UNCHANGED <<driveVars, act, upd, pid, ctx, pathVars, cor, trk, odo, anc, rpt>>

\* A call of set_reverse(r)
TrackingSetReverse(r) ==
    /\ trk' = set_reverse(trk, r)
    /\ tog' = [tog EXCEPT !.stage =
                 IF tog.stage \in {"read", "reread"} /\ r # tog.flag THEN "on"
                 ELSE IF tog.stage = "on" /\ r = tog.flag THEN "back"
                 ELSE IF tog.stage = "back" /\ r # tog.flag THEN "on"
                 ELSE IF tog.stage = "reread" THEN "read"
                 ELSE @]
    /\ anc' = IF anc.valid THEN [anc EXCEPT !.touched = TRUE] ELSE anc
    /\ UNCHANGED <<driveVars, act, upd, pid, ctx, pathVars, cor, odo, rpt>>

\* A call of set_current(offset, heading): the stored pose changes, the
\* watch of the toggles ends.
TrackingSetCurrent(offsets, headings) ==
    /\ \E o \in offsets, h \in headings :
         /\ trk' = set_current(trk, o, h)
         /\ anc' = [valid |-> TRUE, offset |-> o, heading |-> h, ticks |-> 0,
                    still |-> TRUE, touched |-> FALSE]
    /\ tog' = NoToggle
    /\ UNCHANGED <<driveVars, act, upd, pid, ctx, pathVars, cor, odo, rpt>>

\* A tick of the tracking loop storing the pose it computed.
TrackingAdvance ==
    /\ \E o \in TrackOffsets, h \in TrackHeadings, raw \in RawHeadings :
         trk' = [trk EXCEPT !.current = advance(@, o, h, raw)]
    /\ tog' = NoToggle
    /\ anc' = NoAnchor
    /\ UNCHANGED <<driveVars, act, upd, pid, ctx, pathVars, cor, odo, rpt>>

\* ---------------------------------------------------- compound paths
\* The children a compound path can have.
MaxChildren == 3
\* The parameter of a child is counted in steps of 1 / Resolution, that
\* of a compound path of n children in steps of 1 / (n * Resolution): t
\* below stands for t / (n * Resolution), local_t for local_t / Resolution.
Resolution == 2
\* The children are straight lines joined at their ends: child i (from 0)
\* runs from Knot(i) to Knot(i + 1), along x and y in turn, and is
\* (i + 1) * Resolution long.
RECURSIVE Knot(_)
Knot(i) ==
    IF i = 0 THEN Origin
    ELSE LET k == Knot(i - 1)
         IN  IF i % 2 = 1 THEN Point(k.x + i * Resolution, k.y)
             ELSE Point(k.x, k.y + i * Resolution)
\* Path::evaluate of child i, also outside [0, 1]
ChildEvaluate(i, local_t) ==
    Point(Knot(i).x + ((Knot(i + 1).x - Knot(i).x) * local_t) \div Resolution,
          Knot(i).y + ((Knot(i + 1).y - Knot(i).y) * local_t) \div Resolution)
\* Path::length_until of child i: the arc length from 0 to local_t
ChildLengthUntil(i, local_t) ==
    (Distance(Knot(i), Knot(i + 1)) * local_t) \div Resolution
\* Path::length, the default: length_until(1.0)
ChildLength(i) == ChildLengthUntil(i, Resolution)

RECURSIVE PerChildLengths(_, _)
PerChildLengths(i, n) ==
    IF i >= n THEN <<>> ELSE <<ChildLength(i)>> \o PerChildLengths(i + 1, n)
RECURSIVE SumSeq(_)
SumSeq(q) == IF q = <<>> THEN 0 ELSE Head(q) + SumSeq(Tail(q))
CompoundPathNewPerChild(n) ==
    Compound(n, PerChildLengths(0, n), SumSeq(PerChildLengths(0, n)))

\* The loop of CompoundPath::new from child i on: total_length grows by
\* each child's length and is pushed onto lengths.
RECURSIVE CumulativeLengths(_, _, _, _)
CumulativeLengths(i, n, total_length, lengths) ==
    IF i >= n THEN [lengths |-> lengths, total_length |-> total_length]
    ELSE CumulativeLengths(i + 1, n, total_length + ChildLength(i),
                           Append(lengths, total_length + ChildLength(i)))
\* CompoundPath::new of the first n children (their ends match).
CompoundPathNew(n) ==
    LET l == CumulativeLengths(0, n, 0, <<>>)
    IN  Compound(n, l.lengths, l.total_length)

ChildIndexUnclamped(n, t) == t \div Resolution

\* The child that t falls in: floor(n * t), the first child when that is
\* negative and the last when it is n or more.
ChildIndex(n, t) ==
    LET path == t \div Resolution
    IN  IF path < 0 THEN 0 ELSE IF path >= n THEN n - 1 ELSE path
\* paths[path] is there.
InBounds(c, path) == 0 <= path /\ path < c.n
\* CompoundPath::evaluate
CompoundEvaluate(c, t) ==
    LET path == ChildIndex(c.n, t)
        local_t == t - path * Resolution
    IN  [called |-> TRUE, t |-> t, panicked |-> ~InBounds(c, path),
         path |-> path, local_t |-> local_t,
         point |-> IF InBounds(c, path) THEN ChildEvaluate(path, local_t)
                   ELSE Origin]
\* CompoundPath::length_until: the length and whether the call panicked
CompoundLengthUntil(c, t) ==
    IF t = c.n * Resolution
    THEN [panicked |-> FALSE, length |-> c.total_length]
    ELSE LET path == ChildIndex(c.n, t)
             local_t == t - path * Resolution
         IN  IF InBounds(c, path)
             THEN [panicked |-> FALSE,
                   length |-> ChildLengthUntil(path, local_t)
                              + (IF path > 0 THEN c.lengths[path] ELSE 0)]
             ELSE [panicked |-> TRUE, length |-> 0]
\* Path::length of the compound path, the default: length_until(1.0)
CompoundLength(c) == CompoundLengthUntil(c, c.n * Resolution).length

\* The parameters asked of a compound path: from one child's span before
\* t = 0 to one child's span after t = 1.
CompoundTs(c) == (-Resolution) .. ((c.n + 1) * Resolution)
\* A call of evaluate(t) on the compound path.
CompoundEvaluateCall ==
    /\ cmp.n > 0
    /\ \E t \in CompoundTs(cmp) :
         cmp' = [cmp EXCEPT !.evaluated = CompoundEvaluate(cmp, t)]
    /\ UNCHANGED <<driveVars, act, upd, pid, ctx, trackVars, pth>>
\* A call of length_until(t) on the compound path.
CompoundLengthUntilCall ==
    /\ cmp.n > 0
    /\ \E t \in CompoundTs(cmp) :
         LET r == CompoundLengthUntil(cmp, t)
         IN  cmp' = [cmp EXCEPT !.measured =
                        [called |-> TRUE, t |-> t, panicked |-> r.panicked,
                         length |-> r.length,
                         prev_called |-> @.called, prev_t |-> @.t,
                         prev_length |-> @.length]]
    /\ UNCHANGED <<driveVars, act, upd, pid, ctx, trackVars, pth>>

\* ------------------------------------------- the heading corrector
\* Calls of WrappingHeadingCorrector::heading in a behaviour.
MaxCorrectorCalls == 4
\* What a wrapping source can read: [0, 2 pi).
WrappedHeadings == 0 .. (FullTurn - 1)
\* The difference of two wrapped readings, as heading() reduces it.
Reduced(d) ==
    IF d > HalfTurn THEN d - FullTurn
    ELSE IF d < -HalfTurn THEN d + FullTurn
    ELSE d
\* WrappingHeadingCorrector::heading with the source reading
\* current_heading: the corrector after the call and what the call returns.
CorrectorHeadingOf(c, current_heading) ==
    LET last_heading == c.last_heading
        heading_offset == c.heading_offset
        d == Reduced(current_heading - last_heading)
    IN  [c EXCEPT !.last_heading = current_heading,
                  !.heading_offset = @ + d,
                  !.calls = @ + 1,
                  !.prev_reading = c.reading,
                  !.reading = current_heading,
                  !.prev_out = c.out,
                  !.out = current_heading + heading_offset]
\* A call of heading() on the corrector.
CorrectorHeading ==
    /\ cor.calls < MaxCorrectorCalls
    /\ \E h \in WrappedHeadings : cor' = CorrectorHeadingOf(cor, h)
    /\ UNCHANGED <<driveVars, act, upd, pid, ctx, pathVars, trk, tog, odo, anc, rpt>>

\* ------------------------------------------------ the tracking loop
\* Ticks of the tracking loop in a behaviour.
MaxOdoTicks == 2
\* HasRotation::position and HasHeading::heading of a device: the reading,
\* or the default (zero) when the read fails (unwrap_or_default).
position(reading, failed) == IF failed THEN 0 ELSE reading
heading(reading, failed) == IF failed THEN 0 ELSE reading
\* TrackingWheel::delta, for a wheel of unit circumference: the distance
\* since the last call; the caller stores position as last_position.
delta(last_position, pos) == pos - last_position
\* TrackingWheel::local_delta with mounting offset zero: straight travel
\* when the heading did not change; on an arc the chord of the arc, which
\* is zero for a wheel that did not roll (the only arcs the ticks make).
local_delta(mounting_direction, heading_delta, d) ==
    LET travel == IF heading_delta = 0 THEN d ELSE 0
    IN  IF mounting_direction = "Parallel" THEN Vec(0, travel, FALSE)
        ELSE Vec(travel, 0, FALSE)
\* The mean of the local deltas of n wheels of one direction (n <= 1), as
\* f64 division computes it: 0.0 / 0.0 is NaN.
Mean(sum, n) == IF n = 0 THEN Vec(0, 0, TRUE) ELSE sum
VecAdd(a, b) == Vec(a.x + b.x, a.y + b.y, IsNaN(a) \/ IsNaN(b))
\* Rotation2::new(a) * v
Rotate(a, v) ==
    Vec(v.x * Cos(a) - v.y * Sin(a), v.x * Sin(a) + v.y * Cos(a), IsNaN(v))
\* The mean displacement of the wheels in the robot's frame: the
\* perpendicular wheels' mean, or zero when there is none, plus the
\* parallel wheels' mean, divided by their number whatever it is.
average_displacement(o, heading_delta, par_delta, perp_delta) ==
    VecAdd(IF o.perpendicular = 0 THEN Vec(0, 0, FALSE)
           ELSE Mean(local_delta("Perpendicular", heading_delta, perp_delta),
                     o.perpendicular),
           Mean(IF o.parallel = 0 THEN Vec(0, 0, FALSE)
                ELSE local_delta("Parallel", heading_delta, par_delta),
                o.parallel))
\* The heading the loop derives from the sensor: -(raw + heading_offset).
SensedHeading(t, r) == -(heading(r.heading, r.heading_failed) + t.heading_offset)
\* One pass of the tracking loop over the readings r: the new tracking
\* state and the new locals of the task.
tracking_loop(t, o, r) ==
    LET raw_heading == heading(r.heading, r.heading_failed)
        heading_delta == o.last_raw_heading - raw_heading
        last_heading == t.current.heading
        average_heading == (SensedHeading(t, r) + last_heading) \div 2
        par_position == position(r.par, r.par_failed)
        displacement ==
            average_displacement(o, heading_delta,
                                 delta(o.par_last_position, par_position),
                                 delta(o.perp_last_position, r.perp))
        moved == Rotate(average_heading + QuarterTurn, displacement)
        new_offset == VecAdd(Vec(t.current.offset.x, t.current.offset.y,
                                 t.current.nan), moved)
    IN  [trk |-> [t EXCEPT !.current =
                     advance(@, new_offset, average_heading, raw_heading)],
         odo |-> [o EXCEPT
                    !.last_raw_heading = raw_heading,
                    !.par_last_position =
                        IF o.parallel = 0 THEN @ ELSE par_position,
                    !.perp_last_position =
                        IF o.perpendicular = 0 THEN @ ELSE r.perp],
         average_heading |-> average_heading,
         displacement |-> displacement]

\* TrackingWheel::delta reading the sensor and leaving last_position as
\* it was.
WheelDeltaStale(w, pos) ==
    [wheel |-> w,
     delta |-> delta(w.last_position, pos) * w.circumference, reads |-> 1]
\* TrackingWheel::delta on the wheel w whose sensor reads pos: the
\* wheel with last_position advanced, the distance rolled, and the one
\* read of the sensor.
WheelDelta(w, pos) ==
    [wheel |-> [w EXCEPT !.last_position = pos],
     delta |-> delta(w.last_position, pos) * w.circumference, reads |-> 1]
\* TrackingWheel::local_delta on the wheel w whose sensor reads pos, arm
\* by arm.  The chord 2 sin(dh / 2) (delta / dh + offset) of the arms
\* that divide is exact in the model only when it is zero.
WheelLocalDelta(w, heading_delta, pos) ==
    LET r == WheelDelta(w, pos)
        chord == [divided |-> TRUE,
                  exact |-> r.delta = 0 /\ w.mounting_offset = 0,
                  travel |-> 0]
        straight == [divided |-> FALSE, exact |-> TRUE, travel |-> r.delta]
        arm == IF w.mounting_direction = "Parallel"
               THEN (IF heading_delta = 0 THEN straight ELSE chord)
               ELSE (IF heading_delta = 0 THEN straight ELSE chord)
    IN  [r.wheel EXCEPT
           !.sum = @ + r.delta,
           !.calls = @ + 1,
           !.seen = [called |-> TRUE, heading_delta |-> heading_delta,
                     delta |-> r.delta, divided |-> arm.divided,
                     exact |-> arm.exact,
                     vec |-> IF w.mounting_direction = "Parallel"
                             THEN Vec(0, arm.travel, FALSE)
                             ELSE Vec(arm.travel, 0, FALSE),
                     reads |-> r.reads, before |-> w.last_position,
                     position |-> pos]]

\* Calls of local_delta on one wheel in a behaviour.
MaxWheelCalls == 3
WheelPositions == -1 .. 2
WheelHeadingDeltas == {0, QuarterTurn, -HalfTurn}
\* A call of local_delta(heading_delta) on the wheel, its sensor
\* reading pos.
WheelLocalDeltaCall ==
    /\ odo.wheel.calls < MaxWheelCalls
    /\ \E heading_delta \in WheelHeadingDeltas, pos \in WheelPositions :
         odo' = [odo EXCEPT
                   !.wheel = WheelLocalDelta(@, heading_delta, pos)]
    /\ UNCHANGED <<driveVars, act, upd, pid, ctx, pathVars, trk, tog, anc, cor, rpt>>

SensorHeadings == {0, HalfTurn}
ParPositions == {0, 2}
PerpPositions == {0, 1}
\* The readings the sensors can give after the readings last: what the
\* ticks can compute exactly.  A wheel rolls only while the heading
\* sensor reads what it read at the last tick.
SensorReadings(o) ==
    {r \in {Readings(h, hf, par, pf, perp) :
               h \in SensorHeadings, hf \in BOOLEAN, par \in ParPositions,
               pf \in BOOLEAN, perp \in PerpPositions} :
        /\ r.heading_failed => r.heading = 0
        /\ r.par_failed => r.par = 0
        /\ \/ heading(r.heading, r.heading_failed) = o.last_raw_heading
           \/ /\ position(r.par, r.par_failed) = o.par_last_position
              /\ r.perp = o.perp_last_position}
\* The readings r repeat the readings before them, none failing.
Still(q, r) == r = q /\ ~r.heading_failed /\ ~r.par_failed

\* A read of r fails.
Failed(r) == r.heading_failed \/ r.par_failed
\* Every sensor whose read succeeds in r reads what it read in q, where
\* no read failed.
RestStill(q, r) ==
    /\ ~Failed(q)
    /\ r.heading_failed \/ r.heading = q.heading
    /\ r.par_failed \/ r.par = q.par
    /\ r.perp = q.perp

\* A pass of the tracking loop (mod.rs 57-168).
TrackingTick ==
    /\ odo.ticks < MaxOdoTicks
    /\ \E r \in SensorReadings(odo) :
         LET out == tracking_loop(trk, odo, r)
         IN  /\ (SensedHeading(trk, r) + trk.current.heading)
                   % (2 * QuarterTurn) = 0
             /\ trk' = out.trk
             /\ odo' = [out.odo EXCEPT
                          !.sensors = r,
                          !.ticks = @ + 1,
                          !.seen = [ran |-> TRUE,
                                    heading |-> SensedHeading(trk, r),
                                    average_heading |-> out.average_heading,
                                    displacement |-> out.displacement,
                                    before |-> trk.current,
                                    still |-> Still(odo.sensors, r),
                                    failed |-> Failed(r),
                                    rest_still |->
                                        RestStill(odo.sensors, r)]]
             /\ anc' = IF anc.valid
                       THEN [anc EXCEPT !.ticks = @ + 1,
                                        !.still = @ /\ Still(odo.sensors, r)]
                       ELSE anc
    /\ tog' = NoToggle
    /\ UNCHANGED <<driveVars, act, upd, pid, ctx, pathVars, cor, rpt>>

\* ------------------------------------------------ the specifications
Next ==
    \/ RunnerTick
    \/ \E v \in Voltages : SetVoltage(v)
    \/ BoxedAction
    \/ CancelAction
    \/ \E l \in Limits : SetMaxVoltage(l)
    \/ \E a \in Ids : Poll(a)

Spec == Init /\ [][Next]_vars

\* The runner between installs, cancels and reversals, with an
\* acceleration limit below the commands: what a tick writes and keeps.
RunnerInit == InitWith("few", {100}, 1)

RunnerNext ==
    \/ RunnerTick
    \/ \E v \in Voltages : SetVoltage(v)
    \/ BoxedAction
    \/ CancelAction
    \/ \E b \in BOOLEAN : SetReverse(b)

RunnerSpec == RunnerInit /\ [][RunnerNext]_vars

\* Every task and caller operation, one action installed: the borrows.
BorrowInit == InitWith("few", {300}, MaxActions)

BorrowNext ==
    \/ RunnerTick
    \/ OdometryTick
    \/ \E v \in Voltages : SetVoltage(v)
    \/ BoxedAction
    \/ CancelAction
    \/ \E l \in Limits : SetMaxVoltage(l)
    \/ \E b \in BOOLEAN : SetReverse(b)
    \/ \E p \in Poses : SetCurrent(p)
    \/ Current
    \/ \E a \in Ids : Poll(a)

BorrowSpec == BorrowInit /\ [][BorrowNext]_vars

\* One action installed, every command: the arithmetic of a tick.
CmdInit == InitWith("all", MaxAccelerations, MaxActions)

CmdNext ==
    \/ RunnerTick
    \/ \E v \in Voltages : SetVoltage(v)
    \/ BoxedAction
    \/ \E b \in BOOLEAN : SetReverse(b)

CmdSpec == CmdInit /\ [][CmdNext]_vars

\* One settling action, constructed and then updated tick after tick.
ActionInit ==
    /\ DriveInit("few", {300}, 1)
    /\ act \in {RotationNew(t, c) : t \in RotationTargets, c \in TolConfigs}
               \cup {ForwardNew(d, c) : d \in Distances, c \in TolConfigs}
               \cup {SeekingNew(p, 2, c) : p \in TargetPoints, c \in TolConfigs}
               \cup {SeekingReversed(SeekingNew(p, 2, c)) :
                        p \in TargetPoints, c \in TolConfigs}
               \cup {WithSettlingDistance(BoomerangNew(p, c), 2) :
                        p \in TargetPoints, c \in TolConfigs}
    /\ upd = NoUpdate
    /\ pid = PidOutputs(0, 0)
    /\ ctx = Context(0, 0, 0, 0, 0, Origin, 0)
    /\ trk = TrackingNew /\ tog = NoToggle
    /\ odo = OdometryNew(1, 1) /\ anc = NoAnchor
    /\ cor = CorrectorNew(0) /\ rpt = NoReports
    /\ pth = SampledPath(PathPoints) /\ cmp = NoCompound

ActionNext ==
    \/ RotationTick
    \/ ForwardTick
    \/ SeekingTick
    \/ BoomerangTick

ActionSpec == ActionInit /\ [][ActionNext]_vars

\* The composite actions, each updated by the runner's ticks.
CompositeInit ==
    /\ DriveInit("few", {300}, 1)
    /\ act \in {TurnToPointNew(p, r, c) :
                  p \in TargetPoints, r \in BOOLEAN, c \in TolConfigs}
               \cup {LazyNew(c) : c \in TolConfigs}
               \cup {DriveToPointNew(p, c, c) :
                       p \in TargetPoints, c \in TolConfigs}
    /\ upd = NoCompositeUpdate
    /\ pid = PidOutputs(0, 0)
    /\ ctx = Context(0, 0, 0, 0, 0, Origin, 0)
    /\ trk = TrackingNew /\ tog = NoToggle
    /\ odo = OdometryNew(1, 1) /\ anc = NoAnchor
    /\ cor = CorrectorNew(0) /\ rpt = NoReports
    /\ pth = SampledPath(PathPoints) /\ cmp = NoCompound

CompositeNext ==
    \/ TurnToPointTick
    \/ LazyTick
    \/ DriveToPointTick

CompositeSpec == CompositeInit /\ [][CompositeNext]_vars

\* A PurePursuitAction updated by the runner's ticks.
PursuitInit ==
    /\ DriveInit("few", {300}, 1)
    /\ pth = SampledPath(PathPoints) /\ cmp = NoCompound
    /\ act \in {PurePursuitNew(c, la, MaxCmd) :
                  c \in TolConfigs, la \in Lookaheads}
    /\ upd = NoPursuitUpdate
    /\ pid = PidOutputs(0, 0)
    /\ ctx = Context(0, 0, 0, 0, 0, Origin, 0)
    /\ trk = TrackingNew /\ tog = NoToggle
    /\ odo = OdometryNew(1, 1) /\ anc = NoAnchor
    /\ cor = CorrectorNew(0) /\ rpt = NoReports

PursuitNext == PurePursuitTick

PursuitSpec == PursuitInit /\ [][PursuitNext]_vars

\* The tracking subsystem's pose read, set, advanced and mirrored.
TrackInit == InitWith("one", {300}, 1)

TrackNext ==
    \/ TrackingCurrent
    \/ \E r \in BOOLEAN : TrackingSetReverse(r)
    \/ TrackingSetCurrent(TrackOffsets, TrackHeadings)
    \/ TrackingAdvance

TrackSpec == TrackInit /\ [][TrackNext]_vars

\* The tracking task: its loop over the sensors, between set_current,
\* set_reverse and current calls, for each set of wheels.
WheelSets == {<<1, 1>>, <<1, 0>>, <<0, 1>>}
OdometryInit ==
    /\ DriveInit("one", {300}, 1)
    /\ act = NoAction
    /\ upd = NoUpdate
    /\ pid = PidOutputs(0, 0)
    /\ ctx = Context(0, 0, 0, 0, 0, Origin, 0)
    /\ trk = TrackingNew /\ tog = NoToggle
    /\ \E w \in WheelSets : odo = OdometryNew(w[1], w[2])
    /\ anc = NoAnchor
    /\ cor = CorrectorNew(0) /\ rpt = NoReports
    /\ pth = SampledPath(PathPoints) /\ cmp = NoCompound

AnchorOffsets == {Point(1, 2)}
AnchorHeadings == {QuarterTurn, -QuarterTurn}
OdometryNext ==
    \/ TrackingTick
    \/ \E r \in BOOLEAN : TrackingSetReverse(r)
    \/ TrackingSetCurrent(AnchorOffsets, AnchorHeadings)

OdometrySpec == OdometryInit /\ [][OdometryNext]_vars

\* A heading corrector over a wrapping source, from each reading the
\* source can have had before the first call.
CorrectorInit ==
    /\ DriveInit("one", {300}, 1)
    /\ act = NoAction
    /\ upd = NoUpdate
    /\ pid = PidOutputs(0, 0)
    /\ ctx = Context(0, 0, 0, 0, 0, Origin, 0)
    /\ trk = TrackingNew /\ tog = NoToggle
    /\ odo = OdometryNew(1, 1) /\ anc = NoAnchor
    /\ \E h \in WrappedHeadings : cor = CorrectorNew(h) /\ rpt = NoReports
    /\ pth = SampledPath(PathPoints) /\ cmp = NoCompound

CorrectorNext == CorrectorHeading

CorrectorSpec == CorrectorInit /\ [][CorrectorNext]_vars

\* Compound paths of one child and more, evaluated and measured.
CompoundInit ==
    /\ DriveInit("one", {300}, 1)
    /\ act = NoAction
    /\ upd = NoUpdate
    /\ pid = PidOutputs(0, 0)
    /\ ctx = Context(0, 0, 0, 0, 0, Origin, 0)
    /\ trk = TrackingNew /\ tog = NoToggle
    /\ odo = OdometryNew(1, 1) /\ anc = NoAnchor
    /\ cor = CorrectorNew(0) /\ rpt = NoReports
    /\ pth = SampledPath(PathPoints)
    /\ \E n \in 1 .. MaxChildren : cmp = CompoundPathNew(n)

CompoundNext ==
    \/ CompoundEvaluateCall
    \/ CompoundLengthUntilCall

CompoundSpec == CompoundInit /\ [][CompoundNext]_vars

\* =====================================================================
\* path_planner/cubic_parametric.rs
\* =====================================================================

\* The rows of CURVE_FITTING_MATRIX
CURVE_FITTING_MATRIX == <<<<2, -2, 1, 1>>, <<-3, 3, -2, -1>>, <<0, 0, 1, 0>>, <<1, 0, 0, 0>>>>
\* CURVE_FITTING_MATRIX * vector
MatVec(m, v) ==
    [i \in 1 .. 4 |-> m[i][1] * v[1] + m[i][2] * v[2] + m[i][3] * v[3] + m[i][4] * v[4]]
\* Cubic::evaluate at t = n / den, as the numerator over den^3.
CubicEvaluate(cubic, n, den) ==
    cubic.a * n * n * n + cubic.b * n * n * den + cubic.c * n * den * den
        + cubic.d * den * den * den
\* Cubic::evaluate_derivative at the integer t.
CubicEvaluateDerivative(cubic, t) ==
    3 * cubic.a * t * t + 2 * cubic.b * t + cubic.c
\* from_endpoints with the start and the end value taken for each other.
from_endpoints_swapped(start, end, start_derivative, end_derivative) ==
    LET coeffs == MatVec(CURVE_FITTING_MATRIX,
                         <<end, start, start_derivative, end_derivative>>)
    IN  Cubic(coeffs[1], coeffs[2], coeffs[3], coeffs[4])
\* Cubic::from_endpoints
from_endpoints(start, end, start_derivative, end_derivative) ==
    LET coeffs == MatVec(CURVE_FITTING_MATRIX,
                         <<start, end, start_derivative, end_derivative>>)
    IN  Cubic(coeffs[1], coeffs[2], coeffs[3], coeffs[4])
\* CubicParametricPath::new
CubicParametricPathNew(start_point, start_angle, start_easing, end_point, end_angle, end_easing) ==
    [made |-> TRUE,
     start_point |-> start_point, start_angle |-> start_angle,
     start_easing |-> start_easing, end_point |-> end_point,
     end_angle |-> end_angle, end_easing |-> end_easing,
     x |-> from_endpoints(start_point.x, end_point.x,
                          start_easing * Cos(start_angle),
                          end_easing * Cos(end_angle)),
     y |-> from_endpoints(start_point.y, end_point.y,
                          start_easing * Sin(start_angle),
                          end_easing * Sin(end_angle)),
     evaluated |-> NoCubicEvaluated]
\* <CubicParametricPath as Path>::evaluate at t = n / den, the
\* coordinates as numerators over den^3.
CubicPathEvaluate(path, n, den) ==
    Point(CubicEvaluate(path.x, n, den), CubicEvaluate(path.y, n, den))
\* <CubicParametricPath as Path>::evaluate_angle: the receiver of atan2
\* is the derivative of x, its argument the derivative of y.
evaluate_angle(path, t) ==
    Atan2(CubicEvaluateDerivative(path.x, t),
          CubicEvaluateDerivative(path.y, t))
\* The dt of the default Path::evaluate_angle is 1 / AngleDtDen.
AngleDtDen == 10
\* The default Path::evaluate_angle, from evaluate(t) and evaluate(t +
\* dt); answered only where the step runs along an axis, the one case
\* whose angle the model knows exactly.
DefaultEvaluateAngle(path, t) ==
    LET p1 == CubicPathEvaluate(path, t * AngleDtDen, AngleDtDen)
        p2 == CubicPathEvaluate(path, t * AngleDtDen + 1, AngleDtDen)
    IN  IF p2.x = p1.x \/ p2.y = p1.y
        THEN Some(Atan2(p2.y - p1.y, p2.x - p1.x))
        ELSE None

CubicStarts == {Point(0, 0), Point(1, 2)}
CubicEnds == {Point(4, 0), Point(1, 6), Point(3, -1)}
CubicAngles == {0, QuarterTurn, HalfTurn, -QuarterTurn}
CubicEasings == {1, 3}
\* CubicParametricPath::new(..)
CubicNewCall ==
    /\ \E start_point \in CubicStarts, end_point \in CubicEnds,
          start_angle \in CubicAngles, end_angle \in CubicAngles,
          start_easing \in CubicEasings, end_easing \in CubicEasings :
         pth' = [pth EXCEPT !.cubic =
                    CubicParametricPathNew(start_point, start_angle,
                                           start_easing, end_point,
                                           end_angle, end_easing)]
    /\ UNCHANGED <<driveVars, act, upd, pid, ctx, trackVars, cmp>>
\* path.evaluate(t) and path.evaluate_angle(t) at an end of the path,
\* together with what the derivatives and the default evaluate_angle
\* give there.
CubicEvaluateCall ==
    /\ pth.cubic.made
    /\ \E t \in {0, 1} :
         pth' = [pth EXCEPT !.cubic.evaluated =
                    [called |-> TRUE, t |-> t,
                     point |-> CubicPathEvaluate(pth.cubic, t, 1),
                     derivative |->
                         Point(CubicEvaluateDerivative(pth.cubic.x, t),
                               CubicEvaluateDerivative(pth.cubic.y, t)),
                     angle |-> evaluate_angle(pth.cubic, t),
                     default_angle |-> DefaultEvaluateAngle(pth.cubic, t)]]
    /\ UNCHANGED <<driveVars, act, upd, pid, ctx, trackVars, cmp>>

\* The searches of a path, on paths some of whose samples lie equally far
\* from the point asked about.
SearchInit ==
    /\ DriveInit("one", {300}, 1)
    /\ act = NoAction
    /\ upd = NoUpdate
    /\ pid = PidOutputs(0, 0)
    /\ ctx = Context(0, 0, 0, 0, 0, Origin, 0)
    /\ trk = TrackingNew /\ tog = NoToggle
    /\ odo = OdometryNew(1, 1) /\ anc = NoAnchor
    /\ cor = CorrectorNew(0) /\ rpt = NoReports
    /\ \E points \in SearchPaths : pth = SampledPath(points)
    /\ cmp = NoCompound

SearchNext ==
    \/ ClosestPointCall
    \/ PointOnRadiusCall

SearchSpec == SearchInit /\ [][SearchNext]_vars

\* =====================================================================
\* utils/unwrap_expect_report.rs, for Result<T, PortError>
\* =====================================================================

\* Ok(value), Err(PortError::Disconnected { port }) and
\* Err(PortError::IncorrectDevice { port, .. })
PortOk(value) == [kind |-> "Ok", port |-> 0, value |-> value]
Disconnected(port) == [kind |-> "Disconnected", port |-> port, value |-> 0]
IncorrectDevice(port) == [kind |-> "IncorrectDevice", port |-> port, value |-> 0]
\* The ports in the store; none while it is still None.
ReportedPorts(r) == IF r.ports.some THEN r.ports.value ELSE {}
\* expect_report logging a disconnect whether or not the port is in the
\* store already.
expect_report_every_time(r, result, msg) ==
    CASE result.kind = "Ok" ->
           [state |-> r, ret |-> Some(result.value), logged |-> FALSE]
      [] result.kind = "Disconnected" ->
           [state |-> [r EXCEPT
                         !.ports = Some(ReportedPorts(r) \cup {result.port}),
                         !.log = Append(@, [msg |-> msg, port |-> result.port])],
            ret |-> None, logged |-> TRUE]
      [] result.kind = "IncorrectDevice" ->
           [state |-> [r EXCEPT !.panicked = TRUE], ret |-> None,
            logged |-> FALSE]
\* <Result<T, PortError> as UnwrapExpectReportExt<T>>::expect_report on
\* the store and log r: the store and log after it, what it returns and
\* whether it logged.  A panic returns nothing; ret is None then.
expect_report(r, result, msg) ==
    CASE result.kind = "Ok" ->
           [state |-> r, ret |-> Some(result.value), logged |-> FALSE]
      [] result.kind = "Disconnected" ->
           LET ports == ReportedPorts(r)
           IN  IF result.port \notin ports
               THEN [state |-> [r EXCEPT
                                  !.ports = Some(ports \cup {result.port}),
                                  !.log = Append(@, [msg |-> msg,
                                                     port |-> result.port])],
                     ret |-> None, logged |-> TRUE]
               ELSE [state |-> [r EXCEPT !.ports = Some(ports)],
                     ret |-> None, logged |-> FALSE]
      [] result.kind = "IncorrectDevice" ->
           [state |-> [r EXCEPT !.panicked = TRUE], ret |-> None,
            logged |-> FALSE]
\* <Result<T, PortError> as UnwrapExpectReportExt<T>>::unwrap_report
unwrap_report(r, result) ==
    expect_report(r, result,
                  "called unwrap_report on a Err(PortError) value")

\* expect_report / unwrap_report calls in a behaviour.
MaxReports == 4
Ports == {1, 2}
PortResults ==
    {PortOk(v) : v \in {7, 8}} \cup {Disconnected(port) : port \in Ports}
        \cup {IncorrectDevice(port) : port \in Ports}
\* What a call leaves behind.
Reported(out, result) ==
    [out.state EXCEPT
       !.calls = @ + 1,
       !.seen = [called |-> TRUE, kind |-> result.kind, port |-> result.port,
                 value |-> result.value, ret |-> out.ret,
                 logged |-> out.logged, before |-> ReportedPorts(rpt)]]
\* result.expect_report(msg); a panic ends the program.
ExpectReportCall ==
    /\ ~rpt.panicked
    /\ rpt.calls < MaxReports
    /\ \E result \in PortResults :
         rpt' = Reported(expect_report(rpt, result, "msg"), result)
    /\ UNCHANGED <<driveVars, act, upd, pid, ctx, pathVars, trk, tog, odo, anc, cor>>
\* result.unwrap_report()
UnwrapReportCall ==
    /\ ~rpt.panicked
    /\ rpt.calls < MaxReports
    /\ \E result \in PortResults :
         rpt' = Reported(unwrap_report(rpt, result), result)
    /\ UNCHANGED <<driveVars, act, upd, pid, ctx, pathVars, trk, tog, odo, anc, cor>>

\* Port results reported one after another.
ReportInit ==
    /\ DriveInit("one", {300}, 1)
    /\ act = NoAction
    /\ upd = NoUpdate
    /\ pid = PidOutputs(0, 0)
    /\ ctx = Context(0, 0, 0, 0, 0, Origin, 0)
    /\ trk = TrackingNew /\ tog = NoToggle
    /\ odo = OdometryNew(1, 1) /\ anc = NoAnchor
    /\ cor = CorrectorNew(0) /\ rpt = NoReports
    /\ pth = SampledPath(PathPoints)
    /\ cmp = NoCompound

ReportNext ==
    \/ ExpectReportCall
    \/ UnwrapReportCall

ReportSpec == ReportInit /\ [][ReportNext]_vars

\* Tracking wheels of either mounting direction, read again and again.
WheelInit ==
    /\ DriveInit("one", {300}, 1)
    /\ act = NoAction
    /\ upd = NoUpdate
    /\ pid = PidOutputs(0, 0)
    /\ ctx = Context(0, 0, 0, 0, 0, Origin, 0)
    /\ trk = TrackingNew /\ tog = NoToggle
    /\ \E circumference \in {1, 3}, mounting_offset \in {0, 1},
          mounting_direction \in {"Parallel", "Perpendicular"},
          sensor_position \in {0, 2} :
         odo = [OdometryNew(1, 1) EXCEPT
                  !.wheel = TrackingWheelNew(circumference, mounting_offset,
                                             mounting_direction,
                                             sensor_position)]
    /\ anc = NoAnchor
    /\ cor = CorrectorNew(0) /\ rpt = NoReports
    /\ pth = SampledPath(PathPoints)
    /\ cmp = NoCompound

WheelNext == WheelLocalDeltaCall

WheelSpec == WheelInit /\ [][WheelNext]_vars

\* Cubic paths built from their end poses and evaluated at their ends.
CubicInit ==
    /\ DriveInit("one", {300}, 1)
    /\ act = NoAction
    /\ upd = NoUpdate
    /\ pid = PidOutputs(0, 0)
    /\ ctx = Context(0, 0, 0, 0, 0, Origin, 0)
    /\ trk = TrackingNew /\ tog = NoToggle
    /\ odo = OdometryNew(1, 1) /\ anc = NoAnchor
    /\ cor = CorrectorNew(0) /\ rpt = NoReports
    /\ pth = SampledPath(PathPoints)
    /\ cmp = NoCompound

CubicNext ==
    \/ CubicNewCall
    \/ CubicEvaluateCall

CubicSpec == CubicInit /\ [][CubicNext]_vars

\* The actions and their futures: installing, cancelling, ticking, polling.
FutureInit == InitWith("one", {300}, 1)

FutureNext ==
    \/ RunnerTick
    \/ \E v \in Voltages : SetVoltage(v)
    \/ BoxedAction
    \/ CancelAction
    \/ \E a \in Ids : Poll(a)

\* The runner and every awaiting task are scheduled again and again: the
\* runner sleeps 10 ms and loops, a pending future wakes itself in poll.
FairSpec ==
    /\ FutureInit /\ [][FutureNext]_vars
    /\ WF_vars(RunnerTick) /\ \A a \in Ids : WF_vars(Poll(a))

\* ============================================================ claims
Ticked == lastOp.op = "tick"

\* C1: on a tick whose update returns None the runner writes zero voltage
\* to both sides, sets the action's DoneFlag and leaves the slot as it
\* was; no tick clears or replaces the slot.
C1_NoneZeroesAndSettles ==
    /\ Ticked => action = tick.slot
    /\ (Ticked /\ tick.ret = RetNone) =>
          /\ motors.left = Volts(0, 1)
          /\ motors.right = Volts(0, 1)
          /\ tick.slot.flag \in settled
          /\ action # Empty

C1_Witness == Ticked /\ tick.ret = RetNone /\ action.id = tick.updated

\* C2: a poll of the future of action a is Ready exactly when the runner
\* has set a's DoneFlag, and once a's update has returned None the future
\* is eventually Ready (runner and awaiting task scheduled fairly).
C2_FutureFollowsFlag ==
    /\ [](\A a \in Ids : lastOp = Op("poll", a) =>
              (futPoll[a] = "Ready" <=> a \in settled))
    /\ \A a \in Ids :
          (futFlag[a] # 0 /\ Ticked /\ tick.ret = RetNone /\ tick.updated = a)
              ~> (futPoll[a] = "Ready")

C2_Witness ==
    \E a \in Ids : lastOp = Op("poll", a) /\ futPoll[a] = "Ready"

\* C3: after cancel_action() on an unfinished action the slot is empty,
\* the action's update is not called again, its DoneFlag is never set and
\* its future is never Ready.
C3_CancelledNeverResolves ==
    \A a \in Ids : retired[a] = "cancelled" =>
        /\ a \notin settled
        /\ futPoll[a] # "Ready"
        /\ ~(Ticked /\ tick.updated = a)
        /\ lastOp = Op("cancel", a) => action = Empty

C3_Witness ==
    \E a \in Ids : retired[a] = "cancelled" /\ lastOp = Op("poll", a)
                   /\ tick.slot = Empty

\* C4: a tick calls update on at most one action, the one most recently
\* installed; a replaced action is not updated again and its flag is not
\* set.
C4_OnlyInstalledUpdated ==
    /\ (Ticked /\ tick.ret.called) =>
          /\ tick.updated = action.id
          /\ tick.updated = nextId - 1
    /\ \A a \in Ids : retired[a] = "replaced" =>
          /\ a \notin settled
          /\ ~(Ticked /\ tick.updated = a)

C4_Witness ==
    \E a \in Ids : retired[a] = "replaced" /\ Ticked /\ tick.ret.called

\* C9: a tick pushes the voltage limit to the motor groups if and only if
\* the limit differs from its value at the previous tick.
C9_PushIffChanged ==
    Ticked => (tick.pushed <=> tick.maxv # tick.prevMaxv)

\* C5: no task holds a RefCell borrow while it sleeps, and no operation
\* of a task or a caller meets a conflicting borrow.
C5_NoBorrowAcrossSleep == held = NoBorrows /\ ~panicked

C5_Witness ==
    /\ lastOp.op \in {"cancel", "set_current", "poll", "set_max_voltage"}
    /\ tick.wrote
    /\ snapshot # 0

\* The command of the latest tick as the claims read it: the pair the
\* action returned, its sides exchanged in reverse mode.
Commanded ==
    IF tick.rev
    THEN Pair(tick.ret.pair.right, tick.ret.pair.left, tick.ret.pair.units)
    ELSE tick.ret.pair

SomeTick(u) == Ticked /\ tick.ret.some /\ tick.ret.pair.units = u

\* C6: in reverse mode the left motor is sent what the un-reversed runner
\* would send to the right one and conversely, for every action kind;
\* otherwise the sides are not exchanged.
C6_ReverseSwapsSides ==
    /\ SomeTick("Voltage") =>
          LET m == DrivetrainPairMax(tick.ret.pair, tick.maxv)
          IN  IF tick.rev
              THEN /\ motors.left = Volts(m.right, m.den)
                   /\ motors.right = Volts(m.left, m.den)
              ELSE /\ motors.left = Volts(m.left, m.den)
                   /\ motors.right = Volts(m.right, m.den)
    /\ SomeTick("RPM") =>
          LET p == tick.ret.pair
              toLeft == IF tick.rev THEN p.right ELSE p.left
              toRight == IF tick.rev THEN p.left ELSE p.right
          IN  /\ last_left_rpm =
                     AccelLimit(toLeft, tick.prevLeft, tick.step)
              /\ last_right_rpm =
                     AccelLimit(toRight, tick.prevRight, tick.step)
              /\ motors.left = Rpm(AsI32(last_left_rpm))
              /\ motors.right = Rpm(AsI32(last_right_rpm))

C6_Witness ==
    /\ SomeTick("Voltage")
    /\ tick.rev
    /\ tick.slot.kind = "Voltage"
    /\ Abs(tick.ret.pair.left) # Abs(tick.ret.pair.right)
    /\ motors.left.num # motors.right.num

InStep(x, prev, step) == prev - step <= x /\ x <= prev + step

\* C8 as stated: the velocity setpoint written lies within max_accel*dt
\* of the previous setpoint written to that side, equals the command when
\* the command lies in that interval, and is what last-RPM becomes.
C8_SetpointWithinStep ==
    SomeTick("RPM") =>
        LET c == Commanded
        IN  /\ InStep(motors.left.num * RpmScale,
                      tick.prevSetLeft * RpmScale, tick.step)
            /\ InStep(motors.right.num * RpmScale,
                      tick.prevSetRight * RpmScale, tick.step)
            /\ InStep(c.left, tick.prevSetLeft * RpmScale, tick.step)
                   => motors.left.num * RpmScale = c.left
            /\ InStep(c.right, tick.prevSetRight * RpmScale, tick.step)
                   => motors.right.num * RpmScale = c.right
            /\ last_left_rpm = motors.left.num * RpmScale
            /\ last_right_rpm = motors.right.num * RpmScale

\* x (fixed point) truncated toward zero to the integer n
Truncates(x, n) ==
    /\ Abs(n * RpmScale) <= Abs(x)
    /\ Abs(x) - Abs(n * RpmScale) < RpmScale
    /\ n * x >= 0

\* C8 amended: last-RPM moves to the command limited to within
\* max_accel*dt of its previous value, equals the command when that lies
\* in the interval, and the setpoint written is last-RPM truncated toward
\* zero to an integer.
C8_LimitedThenTruncated ==
    SomeTick("RPM") =>
        LET c == Commanded
        IN  /\ InStep(last_left_rpm, tick.prevLeft, tick.step)
            /\ InStep(last_right_rpm, tick.prevRight, tick.step)
            /\ InStep(c.left, tick.prevLeft, tick.step)
                   => last_left_rpm = c.left
            /\ InStep(c.right, tick.prevRight, tick.step)
                   => last_right_rpm = c.right
            /\ motors.left.mode = "Velocity" /\ motors.right.mode = "Velocity"
            /\ Truncates(last_left_rpm, motors.left.num)
            /\ Truncates(last_right_rpm, motors.right.num)

C8_Witness ==
    /\ SomeTick("RPM")
    /\ ~InStep(Commanded.left, tick.prevLeft, tick.step)
    /\ last_left_rpm # motors.left.num * RpmScale
    /\ tick.prevLeft # 0

\* C10: an update of a RotationAction, ForwardAction, SeekingAction or
\* BoomerangAction returns None exactly when Tolerances::check is true for
\* that tick's error and velocity; an update made once the timeout has
\* elapsed returns None, so no update at or after the timeout returns a
\* command.
C10_NoneIffSettled ==
    upd.ret.called =>
        LET c == TolerancesCheck(upd.before, upd.error, upd.velocity, upd.den)
        IN  /\ (upd.ret = RetNone) <=> c.ok
            /\ upd.ret.some <=> ~c.ok
            /\ upd.before.elapsed >= upd.before.timeout => upd.ret = RetNone
            /\ upd.ret.some => upd.before.elapsed < upd.before.timeout
            /\ upd.kind = act.kind
            /\ upd.kind \in {"Rotation", "Forward", "Seeking", "Boomerang"}

C10_Witness ==
    /\ upd.kind = "Rotation"
    /\ upd.ret = RetNone
    /\ upd.before.elapsed >= upd.before.timeout
    /\ ~InTolerance(upd.before, upd.error, upd.velocity, upd.den)

\* C16: the error a RotationAction gives to the settling check and the
\* PID is, on every update, the principal value of setpoint - heading, in
\* (-pi, pi].  The boundary -pi, which the normalisation of the first
\* update lets through, is allowed here.
C16_ErrorPrincipal ==
    (upd.ret.called /\ upd.kind = "Rotation") =>
        (-HalfTurn <= upd.error /\ upd.error <= HalfTurn)

\* C17: a command of a RotationAction has left = -output and right =
\* +output, output being that update's PID output, so left + right = 0.
C17_LeftIsMinusOutput ==
    (upd.ret.some /\ upd.kind = "Rotation") =>
        /\ upd.ret.pair.left = -pid.angular
        /\ upd.ret.pair.right = pid.angular
        /\ upd.ret.pair.left + upd.ret.pair.right = 0

\* C18: a command of a boomerang seek (SeekingAction or BoomerangAction)
\* emitted while the distance to the target is below the action's close
\* threshold (close, settling_distance) has no angular component: left =
\* right.
C18_CloseNoAngular ==
    (upd.ret.some /\ upd.kind \in {"Seeking", "Boomerang"}
       /\ upd.error < (IF upd.kind = "Seeking" THEN act.close
                       ELSE act.settling_distance)) =>
        upd.ret.pair.left = upd.ret.pair.right

\* C19: the linear component (left + right) / 2 of a command of a
\* boomerang seek is the linear PID output times max(cos(angle_error), 0),
\* negated when the action is reversed; so it is 0 when the robot faces
\* more than a quarter turn away from the target.
C19_LinearScaledByCos ==
    (upd.ret.some /\ upd.kind \in {"Seeking", "Boomerang"}) =>
        LET dx == act.target_point.x - ctx.offset.x
            dy == act.target_point.y - ctx.offset.y
            angle_error ==
                WrappedHalf(Atan2(dy, dx)
                            - (IF act.reverse THEN ctx.heading + HalfTurn
                               ELSE ctx.heading))
        IN  upd.ret.pair.left + upd.ret.pair.right =
                2 * pid.linear * Max(Cos(angle_error), 0)
                  * (IF act.reverse THEN -1 ELSE 1)

\* The place of a state of DriveToPointAction in NotStarted, Turning,
\* Driving, Done.
StateRank(state) ==
    CASE state = "NotStarted" -> 0
      [] state = "Turning" -> 1
      [] state = "Driving" -> 2
      [] state = "Done" -> 3

\* C11: an update of a DriveToPointAction goes through the states
\* NotStarted, Turning, Driving, Done one step at a time, from the state
\* it was in, never backward and never past a state; it returns None
\* exactly when it ends in Done (the Driving child returned None in this
\* update, or the action was Done already), so that after a None every
\* update returns None.
C11_StatesInOrder ==
    (upd.ret.called /\ upd.kind = "DriveToPoint") =>
        /\ Len(upd.visited) >= 1
        /\ upd.visited[1] = upd.from.state
        /\ upd.visited[Len(upd.visited)] = act.state
        /\ \A i \in 1 .. (Len(upd.visited) - 1) :
               StateRank(upd.visited[i + 1]) = StateRank(upd.visited[i]) + 1
        /\ (upd.ret = RetNone) <=> (act.state = "Done")
        /\ (upd.from.state = "Done") => (upd.ret = RetNone)

\* An update in Done, after the update that went from Driving to Done.
C11_Witness ==
    /\ upd.ret.called /\ upd.kind = "DriveToPoint"
    /\ upd.from.state = "Done"
    /\ upd.ret = RetNone
    /\ act.state = "Done"

\* C12: the update of a DriveToPointAction in which the Turning child
\* returns None makes the Driving child a BoomerangAction toward the
\* target, and returns that child's output.
C12_DrivingChildIsBoomerang ==
    (upd.ret.called /\ upd.kind = "DriveToPoint"
       /\ upd.from.state \in {"NotStarted", "Turning"}
       /\ act.state = "Driving") =>
        /\ act.child.kind = "Boomerang"
        /\ act.child.target_point = act.target
        /\ upd.ret.some

\* C13: after an update of a LazyAction the initializer is taken and the
\* inner action is the one built from the pose of the first update; an
\* update with an inner action keeps it (its setpoint and its first-update
\* mark are unchanged), and every update returns what the inner action's
\* update returns.
C13_InitializedOnce ==
    (upd.ret.called /\ upd.kind = "Lazy") =>
        LET inner == IF upd.from.action.some THEN upd.from.action.value
                     ELSE Initializer(ContextPose(ctx),
                                      upd.from.initializer.value)
        IN  /\ act.action.some
            /\ ~act.initializer.some
            /\ (act.action.value.setpoint
                  - Initializer(upd.first, NoTolerances).setpoint)
                 % FullTurn = 0
            /\ upd.from.action.some =>
                   /\ ~upd.from.initializer.some
                   /\ upd.from.action.value.initialized
                   /\ act.action.value.setpoint
                        = upd.from.action.value.setpoint
            /\ upd.ret = RotationUpdate(inner, ctx, pid.angular).ret

\* A later update of a LazyAction, at a heading other than that of the
\* first update, that returned a command.
C13_Witness ==
    /\ upd.ret.some /\ upd.kind = "Lazy"
    /\ upd.from.action.some
    /\ ctx.heading # upd.first.heading

\* C14: the RotationAction of a TurnToPointAction has the setpoint
\* atan2(target - offset) (plus pi when reversed) of the offset of the
\* first update, up to full turns, and a later update leaves the setpoint
\* as it is, whatever the offset of that update.
C14_HeadingComputedOnce ==
    (upd.ret.called /\ upd.kind = "TurnToPoint") =>
        /\ act.action.some
        /\ (act.action.value.setpoint
              - (angle_between_points(upd.first.offset, act.target)
                 + (IF act.reverse THEN HalfTurn ELSE 0))) % FullTurn = 0
        /\ upd.from.action.some =>
               /\ upd.from.action.value.initialized
               /\ act.action.value.setpoint = upd.from.action.value.setpoint

\* A later update of a TurnToPointAction from where the target lies in
\* another direction than at the first update.
C14_Witness ==
    /\ upd.ret.some /\ upd.kind = "TurnToPoint"
    /\ upd.from.action.some
    /\ angle_between_points(ctx.offset, act.target)
         # angle_between_points(upd.first.offset, act.target)

\* C15: a path-following update of a PurePursuitAction that leaves the
\* robot nearer to the current target point than the distance at which
\* seeking along the path stops (the lookahead) hands off to final
\* seeking, whether point_on_radius found a point or not.
C15_HandoffWhenNear ==
    (upd.ret.some /\ upd.kind = "PurePursuit" /\ ~upd.from.final_seeking
       /\ Distance(act.target_point, ctx.offset) < act.lookahead) =>
        act.final_seeking

\* C20: set_reverse leaves the stored pose and the heading offset as they
\* are, so after reverse was set to the other value and back, with the
\* stored state untouched, current() returns exactly what it returned
\* before; and the mirror of current() (y -> -y, heading -> 2 pi - heading)
\* applied twice gives the pose back.
C20_ToggleTwiceIdentity ==
    /\ tog.stage \in {"on", "back", "reread"} =>
           /\ trk.current = tog.stored.current
           /\ trk.heading_offset = tog.stored.heading_offset
    /\ tog.stage = "on" =>
           /\ trk.reverse # tog.flag
           /\ current(trk) = Mirror(tog.base)
    /\ tog.stage = "back" => current(trk) = tog.base
    /\ tog.stage = "reread" => tog.read = tog.base
    /\ Mirror(Mirror(trk.current)) = trk.current
    /\ Mirror(Mirror(current(trk))) = current(trk)

\* current() read again after reverse was set and set back, of a stored
\* pose that the mirror changes.
C20_Witness ==
    /\ tog.stage = "reread"
    /\ tog.read = tog.base
    /\ Mirror(tog.read) # tog.read
    /\ trk.current.offset.y # 0

TickWroteLast == odo.seen.ran /\ (anc.valid => anc.ticks > 0)
InFullTurn(a) == 0 <= a /\ a < FullTurn

\* C22: after set_current(offset, theta), ticks of the tracking loop
\* during which no sensor changes leave current() at (offset, theta mod
\* 2 pi), for any theta and with reverse off or on.
C22_StationaryKeepsAnchor ==
    (anc.valid /\ anc.ticks > 0 /\ anc.still /\ ~anc.touched) =>
        /\ current(trk).offset = anc.offset
        /\ current(trk).heading = anc.heading % FullTurn

\* C23: in every reachable state the stored heading and the heading that
\* current() returns lie in [0, 2 pi).
C23_HeadingInRange ==
    InFullTurn(trk.current.heading) /\ InFullTurn(current(trk).heading)

\* C24: after each tick of the tracking loop the stored heading is
\* -(raw_heading + heading_offset) wrapped into [0, 2 pi).
C24_StoredIsSensed ==
    TickWroteLast => trk.current.heading = odo.seen.heading % FullTurn

\* C25: a tick in which a sensor read fails, every other sensor reading
\* what it read before, adds no displacement to the offset.
C25_FailedReadNoDisplacement ==
    (TickWroteLast /\ odo.seen.failed /\ odo.seen.rest_still) =>
        trk.current.offset = odo.seen.before.offset

\* C26: a direction without wheels contributes zero displacement, and
\* the stored offset stays finite.
C26_EmptyDirectionIsZero ==
    TickWroteLast =>
        /\ ~trk.current.nan
        /\ ~IsNaN(odo.seen.displacement)
        /\ odo.perpendicular = 0 => odo.seen.displacement.x = 0
        /\ odo.parallel = 0 => odo.seen.displacement.y = 0

\* C27: the difference between consecutive outputs of the corrector's
\* heading() is the difference of the consecutive wrapped readings
\* reduced into [-pi, pi]; so the output is constant while the source's
\* reading is constant.
C27_OutputFollowsReducedDelta ==
    cor.calls >= 2 =>
        cor.out - cor.prev_out = Reduced(cor.reading - cor.prev_reading)

\* The child that the parameter t of a compound path of n children lies
\* in: the first one before t = 0, the last one from t = 1 on.
ChildOf(n, t) ==
    IF t < 0 THEN 0
    ELSE IF t >= n * Resolution THEN n - 1
    ELSE CHOOSE i \in 0 .. (n - 1) :
             i * Resolution <= t /\ t < (i + 1) * Resolution
\* The lengths of the first k children together.
RECURSIVE FirstChildrenLength(_)
FirstChildrenLength(k) ==
    IF k = 0 THEN 0 ELSE FirstChildrenLength(k - 1) + ChildLength(k - 1)

\* C28: evaluate(t) and length_until(t) of a compound path of n children
\* answer from the child floor(n t), clamped to the first and the last
\* child, at local_t = n t - index, for t below 0, at 1 and above 1 too,
\* without indexing out of bounds; at an inner boundary t = k / n evaluate
\* returns the end that the children k - 1 and k share.
C28_ChildIndexClamped ==
    /\ cmp.evaluated.called =>
         LET e == cmp.evaluated
         IN  /\ ~e.panicked
             /\ e.path = ChildOf(cmp.n, e.t)
             /\ e.local_t = e.t - e.path * Resolution
             /\ e.point = ChildEvaluate(e.path, e.local_t)
             /\ \A k \in 1 .. (cmp.n - 1) :
                  e.t = k * Resolution =>
                      /\ e.point = ChildEvaluate(k - 1, Resolution)
                      /\ e.point = ChildEvaluate(k, 0)
    /\ cmp.measured.called =>
         LET m == cmp.measured
             i == ChildOf(cmp.n, m.t)
         IN  /\ ~m.panicked
             /\ m.length = FirstChildrenLength(i)
                           + ChildLengthUntil(i, m.t - i * Resolution)

\* evaluate at an inner boundary and length_until past the end, of a
\* compound path of several children.
C28_Witness ==
    /\ cmp.n >= 3
    /\ cmp.evaluated.called /\ cmp.evaluated.t = 2 * Resolution
    /\ cmp.measured.called /\ cmp.measured.t > cmp.n * Resolution
    /\ cmp.measured.prev_called /\ cmp.measured.prev_t < 0

RECURSIVE ForwardReach(_, _, _, _)
ForwardReach(point, t, last_distance, hi) ==
    IF t >= hi \/ Distance(Evaluate(t), point) > last_distance THEN t
    ELSE ForwardReach(point, t + 1, Distance(Evaluate(t), point), hi)
RECURSIVE ReverseReach(_, _, _, _)
ReverseReach(point, t, last_distance, lo) ==
    IF t <= lo \/ Distance(Evaluate(t), point) > last_distance THEN t
    ELSE ReverseReach(point, t - 1, Distance(Evaluate(t), point), lo)
\* The samples that closest_point(point, initial_t, overshoot) looks at.
SamplesSeen(point, initial_t, overshoot) ==
    LET d0 == Distance(Evaluate(initial_t), point)
        f == ForwardScan(point, initial_t,
                         [t |-> initial_t, distance |-> F64Max], d0,
                         overshoot)
    IN  ReverseReach(point, initial_t, f.last_distance,
                     PathStart - overshoot)
            .. ForwardReach(point, initial_t, d0, PathEnd + overshoot)
\* The smallest of the samples in ts where cost is least.
SmallestLeast(ts, cost(_)) ==
    CHOOSE t \in ts :
        /\ \A u \in ts : cost(t) <= cost(u)
        /\ \A u \in ts : cost(u) = cost(t) => t <= u

\* C30: of the samples that closest_point looks at, the one nearest to the
\* point is returned and, of several equally near, the one of smallest t,
\* those of the reverse sweep included; of the samples that
\* point_on_radius looks at, the one whose distance is nearest to the
\* radius and, of several, the one of smallest t.
C30_SmallestTWinsTies ==
    LET q == pth.search
        d(t) == Distance(Evaluate(t), q.point)
        off(t) == Abs(d(t) - q.radius)
    IN  /\ q.kind = "closest" =>
              q.result.value
                  = SmallestLeast(SamplesSeen(q.point, q.initial_t,
                                              q.overshoot), d)
        /\ (q.kind = "radius" /\ q.result.some) =>
              q.result.value
                  = SmallestLeast(q.initial_t .. PathEnd, off)

\* The step is a runner tick.
TickStep == lastOp'.op = "tick"
\* The step is a runner tick that writes an RPM command.
RpmTickStep ==
    /\ TickStep
    /\ tick'.ret.called /\ tick'.ret.some /\ tick'.ret.pair.units = "RPM"

\* C36: a tick with the slot empty writes no voltage and no velocity to
\* either side and changes no action state; cancel_action() writes
\* nothing to the motors either, so they keep the last setpoint.
C36_EmptySlotWritesNothing ==
    [][/\ (TickStep /\ action = Empty) =>
            /\ motors' = motors
            /\ action' = action /\ settled' = settled /\ act' = act
            /\ last_left_rpm' = last_left_rpm
            /\ last_right_rpm' = last_right_rpm
       /\ lastOp'.op = "cancel" => motors' = motors]_vars

\* A tick on the slot emptied by a cancel, the motors still commanded.
C36_Witness ==
    /\ Ticked /\ tick.slot = Empty
    /\ \E a \in Ids : retired[a] = "cancelled"
    /\ motors.left.mode # "Idle" /\ motors.left.num # 0

\* C39: a DoneFlag once set is never cleared; the update of an action
\* whose flag is set is not called again, and every tick that finds it in
\* the slot writes zero voltage to both sides.
C39_FinishedStaysFinished ==
    [][/\ settled \subseteq settled'
       /\ (TickStep /\ action # Empty /\ action.flag \in settled) =>
            /\ ~tick'.ret.called /\ tick'.updated = 0
            /\ motors' = [left |-> Volts(0, 1), right |-> Volts(0, 1)]
            /\ action' = action]_vars

\* A tick that found a finished action in the slot.
C39_Witness ==
    /\ Ticked /\ tick.slot # Empty /\ ~tick.ret.called
    /\ tick.slot.flag \in settled /\ action = tick.slot

\* C40: last_left_rpm and last_right_rpm change only on a tick that
\* writes an RPM command; such a tick moves each from the value it had,
\* whichever action wrote that, toward the command by at most the step.
C40_LastRpmOnlyOnRpmTicks ==
    [][/\ (last_left_rpm' # last_left_rpm \/ last_right_rpm' # last_right_rpm)
            => RpmTickStep
       /\ RpmTickStep =>
            LET c == IF tick'.rev THEN DrivetrainPairReverse(tick'.ret.pair)
                     ELSE tick'.ret.pair
                step == tick'.step
                Toward(new, last, cmd) ==
                    /\ Abs(new - last) <= step
                    /\ Min(last, cmd) <= new /\ new <= Max(last, cmd)
                    /\ Abs(cmd - last) <= step => new = cmd
            IN  /\ Toward(last_left_rpm', last_left_rpm, c.left)
                /\ Toward(last_right_rpm', last_right_rpm, c.right)]_vars

\* An RPM tick of a second action that starts from the RPM the first one
\* left, after ticks that wrote none.
C40_Witness ==
    /\ Ticked /\ tick.ret.called /\ tick.ret.some
    /\ tick.ret.pair.units = "RPM"
    /\ tick.updated > 1
    /\ tick.prevLeft # 0
    /\ last_left_rpm # tick.prevLeft
    /\ \E a \in Ids : retired[a] # "no" \/ a \in settled

\* C35: an update of a PurePursuitAction that is in final seeking leaves
\* it in final seeking unless it settles, and an update of a settled one
\* returns None.
C35_FinalSeekingSticks ==
    upd.kind = "PurePursuit" =>
        /\ (upd.from.final_seeking /\ ~upd.from.settled /\ ~act.settled) =>
               act.final_seeking
        /\ upd.from.settled => (upd.ret = RetNone /\ act.settled)


\* C31: closest_point, asked with a hint inside the window from overshoot
\* before the start to overshoot after the end, returns a sample of that
\* window that is a local minimum of the distance to the point (neither
\* neighbouring sample inside the window is strictly closer) and that
\* is no farther from the point than the hint.
C31_ClosestPointLocalMinimum ==
    LET q == pth.search
        d(t) == Distance(Evaluate(t), q.point)
        lo == PathStart - q.overshoot
        hi == PathEnd + q.overshoot
        t == q.result.value
    IN  q.kind = "closest" =>
            /\ t \in lo .. hi
            /\ t - 1 >= lo => d(t - 1) >= d(t)
            /\ t + 1 <= hi => d(t + 1) >= d(t)
            /\ d(t) <= d(q.initial_t)

\* closest_point on the path that turns back, hinted between two valleys
\* of the distance, answers with the nearer valley found going forward,
\* past the end of the path.
C31_Witness ==
    /\ pth.points = BackPoints
    /\ pth.search.kind = "closest" /\ pth.search.overshoot = 1
    /\ pth.search.point = Point(-1, 0)
    /\ pth.search.initial_t = 4
    /\ pth.search.result.value = PathEnd + 1

\* C32: point_on_radius returns Some(t) exactly when one of the samples
\* from the hint to the end of the path lies less than 3 off the radius,
\* t then being a sample where the distance is nearest to the radius,
\* and None otherwise; a hint past the end of the path leaves no sample
\* and the answer is None.
C32_PointOnRadiusSomeIffNear ==
    LET q == pth.search
        off(t) == Abs(Distance(Evaluate(t), q.point) - q.radius)
        ts == q.initial_t .. PathEnd
    IN  q.kind = "radius" =>
            /\ q.result.some <=> \E t \in ts : off(t) < RadiusSlack
            /\ q.result.some =>
                   /\ q.result.value \in ts
                   /\ \A u \in ts : off(q.result.value) <= off(u)
            /\ q.initial_t > PathEnd => ~q.result.some

\* point_on_radius hinted past the end of the path.
C32_Witness ==
    /\ pth.search.kind = "radius" /\ pth.search.initial_t > PathEnd
    /\ ~pth.search.result.some

\* point_on_radius finding no sample near enough although it has some.
C32_WitnessFar ==
    /\ pth.search.kind = "radius" /\ pth.search.initial_t <= PathEnd
    /\ ~pth.search.result.some

C37_EvaluateAngleIsTangent ==
    LET c == pth.cubic
        ev == c.evaluated
    IN  ev.called =>
            /\ ev.t = 0 => ev.angle = c.start_angle
            /\ ev.t = 1 => ev.angle = c.end_angle
            /\ ev.angle = Atan2(ev.derivative.y, ev.derivative.x)
            /\ ev.default_angle.some => ev.angle = ev.default_angle.value

\* C38: every call of local_delta reads the sensor once and leaves
\* last_position at what it read, whichever arm it takes, so that the
\* raw deltas of all the calls so far sum to the latest position less
\* the position at construction, times the circumference; when the
\* heading delta is 0 the result is (0, delta) for a parallel wheel and
\* (delta, 0) for a perpendicular one and nothing is divided.
C38_LocalDeltaAdvancesOnce ==
    LET w == odo.wheel
        ld == w.seen
    IN  /\ w.sum = (w.last_position - w.constructed) * w.circumference
        /\ ld.called =>
               /\ ld.reads = 1
               /\ w.last_position = ld.position
               /\ ld.delta = (ld.position - ld.before) * w.circumference
               /\ ld.heading_delta = 0 =>
                      /\ ~ld.divided /\ ld.exact
                      /\ ld.vec = IF w.mounting_direction = "Parallel"
                                  THEN Vec(0, ld.delta, FALSE)
                                  ELSE Vec(ld.delta, 0, FALSE)

\* A perpendicular wheel that rolled during a turn, read on the arm that
\* divides, after an earlier call.
C38_Witness ==
    /\ odo.wheel.calls >= 2
    /\ odo.wheel.mounting_direction = "Perpendicular"
    /\ odo.wheel.seen.called /\ odo.wheel.seen.heading_delta # 0
    /\ odo.wheel.seen.delta # 0
    /\ odo.wheel.sum # odo.wheel.seen.delta

\* A parallel wheel that rolled with the heading unchanged.
C38_WitnessStraight ==
    /\ odo.wheel.mounting_direction = "Parallel"
    /\ odo.wheel.seen.called /\ odo.wheel.seen.heading_delta = 0
    /\ odo.wheel.seen.delta # 0

\* The log lines about the port.
LogLines(port) == {i \in 1 .. Len(rpt.log) : rpt.log[i].port = port}

\* C34: over any sequence of expect_report and unwrap_report calls on
\* port results, a Disconnected error returns None every time and is
\* logged only the first time for its port, so there is at most one log
\* line per port, and a port once in the reported set stays in it; an
\* IncorrectDevice error panics; Ok(v) returns Some(v), logs nothing and
\* leaves the reported set as it was.
C34_ReportOncePerPort ==
    LET c == rpt.seen
        ports == ReportedPorts(rpt)
    IN  /\ \A port \in Ports :
               /\ Cardinality(LogLines(port)) <= 1
               /\ port \in ports <=> LogLines(port) # {}
        /\ c.called =>
               /\ c.before \subseteq ports
               /\ c.kind = "Disconnected" =>
                      /\ c.ret = None /\ ~rpt.panicked
                      /\ c.port \in ports
                      /\ c.logged <=> c.port \notin c.before
               /\ c.kind = "IncorrectDevice" => rpt.panicked
               /\ c.kind = "Ok" =>
                      /\ c.ret = Some(c.value) /\ ~rpt.panicked
                      /\ ~c.logged /\ ports = c.before
        /\ rpt.panicked => (c.called /\ c.kind = "IncorrectDevice")

\* A second disconnect of a port already reported, with another port
\* reported as well.
C34_Witness ==
    /\ rpt.seen.called /\ rpt.seen.kind = "Disconnected"
    /\ rpt.seen.port \in rpt.seen.before /\ ~rpt.seen.logged
    /\ ReportedPorts(rpt) = Ports

\* A mismatched device reported after a disconnect.
C34_WitnessPanic ==
    /\ rpt.panicked /\ ReportedPorts(rpt) # {}
====
